---------------------------- MODULE Spec2Model ----------------------------
(***************************************************************************)
(* Shareable-key lifecycle and view accounting of the verikey backend.     *)
(*                                                                         *)
(* The durable state is the shareable_keys and requests tables.  Every     *)
(* HTTP handler is one short transaction on a SQLAlchemy session: it       *)
(* SELECTs rows into the session, changes attributes of the loaded         *)
(* objects and COMMITs, which writes the changed columns back by primary   *)
(* key.  Handlers run in concurrent workers, and nothing in the code       *)
(* locks a row or conditions a write on what was read.  The handlers       *)
(* whose overlap with another call is examined (get_key_details,           *)
(* revoke_key, get_all_keys, submit_verification, deny_request) are        *)
(* modelled as two or more steps, the read and the commit, which other     *)
(* workers interleave with; the sessions between their steps are the bag   *)
(* sess.  The other handlers are modelled as one step.                     *)
(*                                                                         *)
(* Spec            the key engine (POST /keys and the operations on a      *)
(*                 key) with concurrent workers                            *)
(* SeqSpec         the same operations, one request at a time              *)
(* SweepSpec       the reconciliation of GET /keys on any table of keys,   *)
(*                 with concurrent workers                                 *)
(* FulfillSpec     requests and the fulfilment transaction, with faults    *)
(* RequestSpec     the request lifecycle with concurrent workers           *)
(* SeqRequestSpec  the request lifecycle, one request at a time, over      *)
(*                 every kind of body                                      *)
(* MintSpec        the two places that create a key                        *)
(* BundleSpec      what a key holds: bundles built by POST /keys and by    *)
(*                 the fulfilment, for verified and unverified users,      *)
(*                 one request at a time                                   *)
(* TitleSpec       both handlers that validate a title, over titles at     *)
(*                 every limit                                             *)
(* AddressSpec     addresses spelled in either letter case, one request    *)
(*                 at a time                                               *)
(* ValidationSpec  bodies with validation errors for POST /keys and for    *)
(*                 the requests                                            *)
(* IdentitySpec    the identity columns of a user: assignments, the        *)
(*                 profile update and account deletion                     *)
(* LabelSpec       labels of created and of minted keys                    *)
(* AuthSpec        access tokens: login, refresh and token_required        *)
(* LifecycleSpec   Spec with account deletion                              *)
(* StatusSpec      KeyStatusManager on any table of keys                   *)
(*                                                                         *)
(* POST /verifications is registered twice; the application registers      *)
(* verification_bp before keys_bp, so verification.submit_verification is  *)
(* the handler that answers and the one modelled.                          *)
(***************************************************************************)
EXTENDS Integers, FiniteSets, Sequences, Bags, TLC

\* ------------------------------------------------------------------ bounds
\* largest views_allowed a caller supplies
MaxViews == 2
\* concurrent workers: sessions that may be between read and commit
NumWorkers == 2

\* ------------------------------------------------------- program constants
\* views_allowed falls back to this when the caller supplies a value <= 0
DefaultViews == 2

\* registered, active users; a user stands for its e-mail address as well
Users == {1, 2, 3}
\* nullable user columns: 0 is NULL (an address no registered user has)
NoUser == 0
Recipients == Users \cup {NoUser}

\* An e-mail address: the user who registered it (NoUser for an address no
\* user has) and its spelling, in lower case as signup stores it
\* (email.strip().lower()) or with other letter case.
Email(u) == [owner |-> u, lower |-> TRUE]
EmailOtherCase(u) == [owner |-> u, lower |-> FALSE]

\* User.query.filter_by(email=address).first(): the address is compared as
\* it was given with the stored addresses; the handlers that resolve an
\* address strip it and do not change its case
FindByEmail(e) == IF e.lower /\ e.owner \in Users THEN e.owner ELSE NoUser

\* SQL NULL / JSON null in a text column or entry, and in a date column
Null == "NULL"
NoDate == 0

\* first_name, last_name and date_of_birth (as the year of birth) that
\* signup stores: nullable=False; signup refuses an age below 18.
SignupFirst == "first"
SignupLast == "last"
SignupBirth == 1990
\* date.today(), as a year
Today == 2025

\* The columns of a user that the handlers read: the self-reported
\* identity, the verification columns and is_active.
Profile(is_verified, first, last, dob) ==
    [is_active |-> TRUE,
     first_name |-> SignupFirst, last_name |-> SignupLast,
     date_of_birth |-> SignupBirth,
     is_verified |-> is_verified, verified_first_name |-> first,
     verified_last_name |-> last, verified_date_of_birth |-> dob]

\* a user as signup stores it: is_active and is_verified take the column
\* defaults True and False
SignedUp == Profile(FALSE, Null, Null, NoDate)
\* the primary keys POST /keys allocates and the key operations address
KeyIds == {1}
\* the primary keys POST /requests allocates
RequestIds == {1}
\* the 'views_allowed' entry of a request body: absent, or a number
\* data.get('views_allowed'): a JSON number, value + tenths/10 with
\* 0 <= tenths < 10, or no such key in the body
ViewsAbsent == [present |-> FALSE, value |-> 0, tenths |-> 0]
Views(v) == [present |-> TRUE, value |-> v, tenths |-> 0]
ViewsFraction(v, t) == [present |-> TRUE, value |-> v, tenths |-> t]
ViewsInputs == {ViewsAbsent} \cup {Views(v) : v \in -1 .. MaxViews}
\* the history counter served stops counting here
ServedCap == MaxViews + 1

VARIABLES
    keys,           \* shareable_keys table: id -> row, for the stored rows
    nextKeyId,      \* autoincrement primary key of shareable_keys
    requests,       \* requests table: id -> row, for the stored rows
    nextRequestId,  \* autoincrement primary key of requests
    sess,           \* bag of sessions between their read and their commit
    clock,          \* datetime.utcnow()
    resp,           \* the last HTTP response sent
    served,         \* per key id: bundle deliveries to its recipient (history)
    users,          \* users table: id -> the columns the handlers read
    tokens          \* the access tokens issued so far, held by clients

vars ==
    <<keys, nextKeyId, requests, nextRequestId, sess, clock, resp, served,
      users, tokens>>

keyVars == <<keys, nextKeyId, served>>
requestVars == <<requests, nextRequestId>>

\* ---------------------------------------------------------------- helpers
Min(a, b) == IF a <= b THEN a ELSE b

Stored == DOMAIN keys

Insert(table, id, row) ==
    [i \in DOMAIN table \cup {id} |-> IF i = id THEN row ELSE table[i]]

Delete(table, id) == [i \in DOMAIN table \ {id} |-> table[i]]

\* An HTTP response.  bundle: the body carries user_data.  status and
\* views_used: the state the body reports ("-" and 0 when it reports none).
Response(op, actor, id, code, bundle, status, views_used) ==
    [op |-> op, actor |-> actor, id |-> id, code |-> code,
     bundle |-> bundle, status |-> status, views_used |-> views_used]

NoResponse == Response("none", NoUser, 0, 0, FALSE, "-", 0)

\* ShareableKey(..., status='active'); views_used and last_viewed_at take
\* the column defaults 0 and NULL.  origin is the request the notes column
\* names ("Verification response for request: ..."), 0 for POST /keys.
\* content: the columns the handler fills from the body and the profile
\* (recipient_email, label, information_types, user_data).
NewKey(creator, recipient, views_allowed, origin, content) ==
    [creator |-> creator, recipient |-> recipient, status |-> "active",
     views_allowed |-> views_allowed, views_used |-> 0,
     last_viewed_at |-> 0, origin |-> origin,
     recipient_email |-> content.recipient_email,
     label |-> content.label,
     information_types |-> content.information_types,
     user_data |-> content.user_data]

\* a JSON object / Python dict: a function from its keys to their values
EmptyDict == [k \in {} |-> Null]
DictGet(d, k, default) == IF k \in DOMAIN d THEN d[k] ELSE default

\* NULL in an address column
NullEmail == [owner |-> NoUser, lower |-> FALSE]

KeyContent(recipient_email, label, information_types, user_data) ==
    [recipient_email |-> recipient_email, label |-> label,
     information_types |-> information_types, user_data |-> user_data]

NoRow == NewKey(NoUser, NoUser, 0, 0,
                KeyContent(NullEmail, Null, << >>, EmptyDict))

\* views_allowed <= 0, for the number value + tenths/10
NonPositive(body) ==
    body.value < 0 \/ (body.value = 0 /\ body.tenths = 0)

\* views_allowed = db.Column(db.Integer): the INSERT casts the number to
\* the column type, rounding to the nearest integer.  (A storage engine
\* with dynamic typing keeps the fraction instead; for a number below one
\* half both give a value below 1.)
ColumnInteger(body) ==
    IF body.tenths >= 5 THEN body.value + 1 ELSE body.value

\* faulty variant: the number is stored as given, positive or not
NormalizeViewsAsGiven(body) ==
    IF body.present THEN ColumnInteger(body) ELSE DefaultViews

\* views_allowed = data.get('views_allowed', 2); if <= 0: 2.  No check
\* that the number is whole.
NormalizeViews(body) ==
    LET given == IF body.present THEN body ELSE Views(DefaultViews)
    IN  IF NonPositive(given) THEN DefaultViews ELSE ColumnInteger(given)

\* a session between its read and its commit
ViewSession(u, k, used) ==
    [pc |-> "viewing", user |-> u, id |-> k, views_used |-> used,
     new_key |-> NoRow, at |-> 0, updates |-> {}]

\* a revoke between its check and its commit
RevokeSession(u, k) ==
    [pc |-> "revoking", user |-> u, id |-> k, views_used |-> 0,
     new_key |-> NoRow, at |-> 0, updates |-> {}]

\* a deny between its check and its commit; at is the response_at it set
DenySession(u, r, at) ==
    [pc |-> "denying", user |-> u, id |-> r, views_used |-> 0,
     new_key |-> NoRow, at |-> at, updates |-> {}]

\* a listing between its reconciliation loop and its commit; updates is
\* keys_to_update
SweepSession(u, updates) ==
    [pc |-> "sweeping", user |-> u, id |-> 0, views_used |-> 0,
     new_key |-> NoRow, at |-> 0, updates |-> updates]

\* at: the response_at value the session holds, 0 before it is set
FulfillSession(pc, u, r, row, at) ==
    [pc |-> pc, user |-> u, id |-> r, views_used |-> 0, new_key |-> row,
     at |-> at, updates |-> {}]

Open(s) == sess (+) SetToBag({s})
Close(s) == sess (-) SetToBag({s})
InFlight == BagToSet(sess)
AllIdle == sess = EmptyBag
WorkerFree == BagCardinality(sess) < NumWorkers

\* --------------------------------------------------------------- Init
Init ==
    /\ keys = << >>
    /\ nextKeyId = 1
    /\ requests = << >>
    /\ nextRequestId = 1
    /\ sess = EmptyBag
    /\ clock = 1
    /\ resp = NoResponse
    /\ served = [k \in KeyIds |-> 0]
    /\ users = [u \in Users |-> SignedUp]
    /\ tokens = {}

\* ------------------------------------------------ titles (validate_title)
\* A title as the validator sees it: the whitespace around it (pad) and its
\* words, one blank between two words; a word is its length and whether it
\* has a letter.  NoTitle is a body without the 'label' key.
Word(n, alpha) == [len |-> n, alpha |-> alpha]
Title(pad, words) == [present |-> TRUE, pad |-> pad, words |-> words]
NoTitle == [present |-> FALSE, pad |-> 0, words |-> << >>]

MIN_LENGTH == 3
MAX_LENGTH == 30
MAX_SINGLE_WORD == 20
MAX_WORD_LENGTH == 15

RECURSIVE SumLen(_)
SumLen(words) ==
    IF words = << >> THEN 0 ELSE Head(words).len + SumLen(Tail(words))

\* title.strip()
Strip(title) == [title EXCEPT !.pad = 0]

\* len(title) of a stripped title
TitleLength(title) ==
    IF title.words = << >> THEN 0
    ELSE SumLen(title.words) + Len(title.words) - 1

\* the error message, "" for (True, "")
validate_title(title) ==
    IF ~title.present \/ title.words = << >>
    THEN "Title is required"
    ELSE IF TitleLength(title) < MIN_LENGTH
    THEN "Title must be at least 3 characters"
    ELSE IF TitleLength(title) > MAX_LENGTH
    THEN "Title must be no more than 30 characters"
    ELSE IF Len(title.words) = 1 /\ TitleLength(title) > MAX_SINGLE_WORD
    THEN "Title appears to be a single long word"
    ELSE IF \E i \in DOMAIN title.words :
                title.words[i].len > MAX_WORD_LENGTH
    THEN "Individual words in title cannot exceed 15 characters"
    ELSE IF ~\E i \in DOMAIN title.words : title.words[i].alpha
    THEN "Title must contain at least some letters"
    ELSE ""

\* --------------------------------------------- request bodies (JSON input)
\* the 'information_types' entry of a body: absent, a list, or a value that
\* is no list (a non-empty string)
InfoAbsent == [kind |-> "absent", items |-> << >>]
InfoList(items) == [kind |-> "list", items |-> items]
InfoOther == [kind |-> "other", items |-> << >>]

\* faulty variant: a body without categories passes
InfoGivenAlways(info) == TRUE

\* not data.get('information_types')
InfoGiven(info) ==
    \/ info.kind = "list" /\ info.items # << >>
    \/ info.kind = "other"

\* isinstance(data['information_types'], list)
InfoIsList(info) == info.kind = "list"

\* the 'notes' entry of a body
NotesAbsent == [present |-> FALSE, text |-> ""]
Notes(text) == [present |-> TRUE, text |-> text]

\* the 'target_email' / 'recipient_email' entry of a body: absent, or an
\* e-mail address
TargetAbsent == [present |-> FALSE, email |-> Email(NoUser)]
Target(user) == [present |-> TRUE, email |-> Email(user)]
\* the address of a user spelled with other letter case than at signup
TargetOtherCase(user) == [present |-> TRUE, email |-> EmailOtherCase(user)]

\* the bodies the handlers are offered
LabelInputs ==
    { NoTitle,
      Title(0, <<Word(2, TRUE)>>),
      Title(1, <<Word(4, TRUE)>>),
      Title(0, <<Word(3, TRUE), Word(5, TRUE)>>) }
InfoInputs ==
    { InfoAbsent, InfoOther, InfoList(<< >>), InfoList(<<"age">>),
      InfoList(<<"fullname", "firstname">>), InfoList(<<"ssn">>) }
NotesInputs == { NotesAbsent, Notes("note") }
TargetInputs == { TargetAbsent } \cup { Target(u) : u \in Recipients }

\* a label and a category list that pass every check of the handlers
GoodLabel == Title(1, <<Word(4, TRUE)>>)
GoodInfo == InfoList(<<"age">>)

\* ------------------------------------------------ users (models.User)
\* the self-reported columns of a user
FirstName(u) == users[u].first_name
LastName(u) == users[u].last_name
DateOfBirth(u) == users[u].date_of_birth

\* User.age: from the verified date of birth when the user is verified and
\* has one, else from date_of_birth; 0 stands for None (both are falsy)
age(u) ==
    LET dob == IF /\ users[u].is_verified
                  /\ users[u].verified_date_of_birth # NoDate
               THEN users[u].verified_date_of_birth
               ELSE DateOfBirth(u)
    IN  IF dob = NoDate THEN 0 ELSE Today - dob

display_first_name(u) ==
    IF users[u].is_verified /\ users[u].verified_first_name # Null
    THEN users[u].verified_first_name ELSE FirstName(u)

display_last_name(u) ==
    IF users[u].is_verified /\ users[u].verified_last_name # Null
    THEN users[u].verified_last_name ELSE LastName(u)

\* f"{self.display_first_name} {self.display_last_name}"
display_full_name(u) == display_first_name(u) \o " " \o display_last_name(u)

\* str(n) for n >= 0
Digits == <<"0", "1", "2", "3", "4", "5", "6", "7", "8", "9">>
RECURSIVE Str(_)
Str(n) ==
    IF n < 10 THEN Digits[n + 1]
    ELSE Str(n \div 10) \o Digits[(n % 10) + 1]

\* ------------------------------------------- key and answer bodies (JSON)
\* an entry of a body that the handler reads with "in" or .get()
NoEntry == [present |-> FALSE, value |-> Null]
Entry(v) == [present |-> TRUE, value |-> v]

\* the if/elif chain of the bundle loops: other categories add nothing
BundleTypes == {"fullname", "firstname", "age", "location", "selfie", "photo"}

Range(seq) == {seq[i] : i \in DOMAIN seq}

\* location objects a client sends
City == "Paris"
Latitude == "48.8566"
Longitude == "2.3522"
CityOnly == [cityDisplay |-> City]
CityAndCoords ==
    [cityDisplay |-> City, latitude |-> Latitude, longitude |-> Longitude]
CoordsOnly == [latitude |-> Latitude, longitude |-> Longitude]

\* the body of POST /keys
KeyData(label, recipient, views_in, info, loc, given, selfie, photo, link) ==
    [label |-> label, recipient_email |-> recipient,
     views_allowed |-> views_in, information_types |-> info,
     location_data |-> loc, user_data |-> given,
     selfie_data |-> selfie, photo_data |-> photo,
     is_shareable_link |-> link]

\* a body that passes every check, to the address of user r (an address no
\* user has for NoUser), with nothing captured
PlainKey(r, views_in) ==
    KeyData(GoodLabel, Target(r), views_in, GoodInfo, NoEntry, NoEntry,
            NoEntry, NoEntry, FALSE)

\* the body of POST /verifications besides request_id.  additional_data is
\* absent, the text of a JSON object ("json"), a text that does not parse
\* ("garbage"), or a JSON object instead of a text ("object"); coords says
\* that the body has the keys latitude and longitude.
AdditionalAbsent == [kind |-> "absent", value |-> EmptyDict]
AdditionalJson(d) == [kind |-> "json", value |-> d]
AdditionalGarbage == [kind |-> "garbage", value |-> EmptyDict]
AdditionalObject(d) == [kind |-> "object", value |-> d]

AnswerData(views_in, additional, coords, city, loc, selfie, photo) ==
    [views_allowed |-> views_in, additional_data |-> additional,
     coords |-> coords, location_city_display |-> city,
     location_data |-> loc, selfie_base64 |-> selfie,
     photo_base64 |-> photo]

\* a body with nothing but request_id and views_allowed
PlainAnswer(views_in) ==
    AnswerData(views_in, AdditionalAbsent, FALSE, NoEntry, NoEntry, NoEntry,
               NoEntry)

\* ------------------------------------------------ POST /keys (create)
\* faulty variant: the copy in keys.py lets a title without a letter pass
keys_validate_title_digits(title) ==
    IF ~title.present \/ title.words = << >>
    THEN "Title is required"
    ELSE IF TitleLength(title) < MIN_LENGTH
    THEN "Title must be at least 3 characters"
    ELSE IF TitleLength(title) > MAX_LENGTH
    THEN "Title must be no more than 30 characters"
    ELSE IF Len(title.words) = 1 /\ TitleLength(title) > MAX_SINGLE_WORD
    THEN "Title appears to be a single long word"
    ELSE IF \E i \in DOMAIN title.words :
                title.words[i].len > MAX_WORD_LENGTH
    THEN "Individual words in title cannot exceed 15 characters"
    ELSE ""

\* keys.validate_title: the error message, "" for (True, "")
keys_validate_title(title) ==
    IF ~title.present \/ title.words = << >>
    THEN "Title is required"
    ELSE IF TitleLength(title) < MIN_LENGTH
    THEN "Title must be at least 3 characters"
    ELSE IF TitleLength(title) > MAX_LENGTH
    THEN "Title must be no more than 30 characters"
    ELSE IF Len(title.words) = 1 /\ TitleLength(title) > MAX_SINGLE_WORD
    THEN "Title appears to be a single long word"
    ELSE IF \E i \in DOMAIN title.words :
                title.words[i].len > MAX_WORD_LENGTH
    THEN "Individual words in title cannot exceed 15 characters"
    ELSE IF ~\E i \in DOMAIN title.words : title.words[i].alpha
    THEN "Title must contain at least some letters"
    ELSE ""

\* the image entry of the bundle: selfie_data / photo_data of the body,
\* else the entry of the body's user_data as it is given, else a marker
CreateImage(data, direct, k, now) ==
    IF direct.present
    THEN [status |-> "captured", image_data |-> direct.value,
          captured_at |-> now]
    ELSE IF data.user_data.present /\ k \in DOMAIN data.user_data.value
    THEN data.user_data.value[k]
    ELSE [status |-> "not_captured", image_data |-> Null]

\* the location entry of the bundle: the cityDisplay of location_data, else
\* of the location of the body's user_data, else a marker; nothing else of
\* the object is copied
CreateLocation(data) ==
    IF data.location_data.present
    THEN [cityDisplay |->
            DictGet(data.location_data.value, "cityDisplay",
                    "Location captured")]
    ELSE IF /\ data.user_data.present
            /\ "location" \in DOMAIN data.user_data.value
    THEN [cityDisplay |->
            DictGet(data.user_data.value["location"], "cityDisplay",
                    "Location captured")]
    ELSE [cityDisplay |-> "Location not captured"]

\* verification_badge; its timestamp and level are left out
VerificationBadge == [verified |-> TRUE]

\* user_data as the loop over information_types and the badge test build it
CreateUserData(u, data, now) ==
    LET items == Range(data.information_types.items)
        named == items \cap {"fullname", "firstname", "age"}
        dom == (items \cap BundleTypes)
               \cup (IF named # {} THEN {"is_verified"} ELSE {})
               \cup (IF users[u].is_verified
                     THEN {"verification_badge"} ELSE {})
    IN  [k \in dom |->
           CASE k = "fullname" -> display_full_name(u)
             [] k = "firstname" -> display_first_name(u)
             [] k = "age" -> IF age(u) # 0 THEN Str(age(u))
                             ELSE "Age not available"
             [] k = "location" -> CreateLocation(data)
             [] k = "selfie" -> CreateImage(data, data.selfie_data, k, now)
             [] k = "photo" -> CreateImage(data, data.photo_data, k, now)
             [] k = "is_verified" -> users[u].is_verified
             [] k = "verification_badge" -> VerificationBadge]

\* The recipient is the active user whose stored address equals the one
\* given; the stored address is that user's, or the one given.
create_shareable_key(u, data) ==
    /\ nextKeyId \in KeyIds
    /\ IF \/ keys_validate_title(data.label) # ""
          \/ ~data.recipient_email.present /\ ~data.is_shareable_link
          \/ ~InfoGiven(data.information_types)
          \/ ~InfoIsList(data.information_types)
       THEN /\ resp' = Response("create", u, 0, 400, FALSE, "-", 0)
            /\ UNCHANGED <<keys, nextKeyId>>
       ELSE /\ LET recipient_user ==
                     IF data.recipient_email.present
                     THEN FindByEmail(data.recipient_email.email)
                     ELSE NoUser
                   recipient_email ==
                     IF recipient_user # NoUser THEN Email(recipient_user)
                     ELSE IF data.recipient_email.present
                     THEN data.recipient_email.email
                     ELSE NullEmail
               IN keys' = Insert(keys, nextKeyId,
                     NewKey(u, recipient_user,
                            NormalizeViews(data.views_allowed), 0,
                            KeyContent(recipient_email, Strip(data.label),
                                       data.information_types.items,
                                       CreateUserData(u, data, clock))))
            /\ nextKeyId' = nextKeyId + 1
            /\ resp' = Response("create", u, nextKeyId, 201, FALSE,
                                "active", 0)
    /\ UNCHANGED <<requestVars, sess, clock, served, users, tokens>>

\* ------------------------------------- GET /keys/<id>/details (record_view)
\* faulty variant: the query filters on the id alone
IsPartyAnyone(row, u) == TRUE

\* the row filter of the query: the caller is creator or recipient
IsParty(row, u) == row.creator = u \/ row.recipient = u

\* the exhausted-views rejection
IsExhaustedFor(row, u) ==
    /\ row.recipient = u
    /\ row.status = "viewed_out"
    /\ row.views_used >= row.views_allowed

\* faulty variant: the counting branch does not look at the status
CountsViewAnyStatus(row, u) == row.recipient = u

\* the view-counting branch
CountsView(row, u) == row.recipient = u /\ row.status = "active"

\* faulty variant: the counting branch never moves the key to viewed_out
ViewUpdateKeepsStatus(row, used, now) ==
    [row EXCEPT !.views_used = used + 1, !.last_viewed_at = now]

\* faulty variant: the view that exhausts the key also empties its bundle
ViewUpdateDropsBundle(row, used, now) ==
    [row EXCEPT !.views_used = used + 1,
                !.last_viewed_at = now,
                !.status = IF used + 1 >= row.views_allowed
                           THEN "viewed_out" ELSE @,
                !.user_data = IF used + 1 >= row.views_allowed
                              THEN EmptyDict ELSE @]

\* faulty variant: the UPDATE writes the status the session holds also when
\* the session did not change it
ViewUpdateWritesStatus(row, used, now) ==
    [row EXCEPT !.views_used = used + 1,
                !.last_viewed_at = now,
                !.status = IF used + 1 >= row.views_allowed
                           THEN "viewed_out" ELSE "active"]

\* The attribute changes of the counting branch, applied to the stored row
\* by the UPDATE the commit issues: views_used and last_viewed_at are always
\* written, status only when the session changed it.  used is the
\* views_used value the session read.
ViewUpdate(row, used, now) ==
    [row EXCEPT !.views_used = used + 1,
                !.last_viewed_at = now,
                !.status = IF used + 1 >= row.views_allowed
                           THEN "viewed_out" ELSE @]

\* the 403 body: status, views_used and views_allowed, no user_data
ExhaustedBody(u, k, row) ==
    Response("details", u, k, 403, FALSE, "viewed_out", row.views_used)

\* faulty variant: the exhaustion check is made again after the increment
BundleBodyUnlessExhausted(u, k, row) ==
    IF row.status = "viewed_out"
    THEN ExhaustedBody(u, k, row)
    ELSE Response("details", u, k, 200, TRUE, row.status, row.views_used)

\* the 200 body: key_details with user_data
BundleBody(u, k, row) ==
    Response("details", u, k, 200, TRUE, row.status, row.views_used)

Serve(u, k, row) ==
    IF row.recipient = u
    THEN [served EXCEPT ![k] = Min(@ + 1, ServedCap)]
    ELSE served

\* The query and the two checks.  Every path but the counting one answers
\* at once without writing; the counting path keeps what it read in the
\* session until its commit.
get_key_details_load(u, k) ==
    /\ IF k \notin Stored \/ ~IsParty(keys[k], u)
       THEN /\ resp' = Response("details", u, k, 404, FALSE, "-", 0)
            /\ UNCHANGED <<sess, served>>
       ELSE IF IsExhaustedFor(keys[k], u)
       THEN /\ resp' = ExhaustedBody(u, k, keys[k])
            /\ UNCHANGED <<sess, served>>
       ELSE IF CountsView(keys[k], u)
       THEN /\ WorkerFree
            /\ sess' = Open(ViewSession(u, k, keys[k].views_used))
            /\ UNCHANGED <<resp, served>>
       ELSE /\ resp' = BundleBody(u, k, keys[k])
            /\ served' = Serve(u, k, keys[k])
            /\ UNCHANGED sess
    /\ UNCHANGED <<keys, nextKeyId, requestVars, clock, users, tokens>>

\* db.session.commit() of the counting branch and the rest of the handler,
\* which reads the committed row back for the body.  The UPDATE addresses
\* the row by primary key; when the row is gone the commit raises and the
\* handler answers 500.
get_key_details_commit(s) ==
    /\ s \in InFlight
    /\ s.pc = "viewing"
    /\ IF s.id \notin Stored
       THEN /\ resp' = Response("details", s.user, s.id, 500, FALSE, "-", 0)
            /\ UNCHANGED <<keys, clock, served>>
       ELSE /\ keys' = [keys EXCEPT
                          ![s.id] = ViewUpdate(@, s.views_used, clock)]
            /\ clock' = clock + 1
            /\ resp' = BundleBody(s.user, s.id, keys'[s.id])
            /\ served' = Serve(s.user, s.id, keys[s.id])
    /\ sess' = Close(s)
    /\ UNCHANGED <<nextKeyId, requestVars, users, tokens>>

\* ------------------------------------------- POST /keys/<id>/revoke
\* filter_by(id=key_id, creator_id=current_user_id)
IsCreator(row, u) == row.creator = u

\* filter_by(id=key_id, recipient_user_id=current_user_id)
IsRecipient(row, u) == row.recipient = u

\* faulty variant: revoke does not look at the status
RevocableAlways(row) == TRUE

Revocable(row) == row.status = "active"

\* the query and the status check; key.status = 'revoked' changes the
\* loaded object only
revoke_key_load(u, k) ==
    /\ IF k \notin Stored \/ ~IsCreator(keys[k], u)
       THEN /\ resp' = Response("revoke", u, k, 404, FALSE, "-", 0)
            /\ UNCHANGED sess
       ELSE IF ~Revocable(keys[k])
       THEN /\ resp' = Response("revoke", u, k, 400, FALSE,
                                keys[k].status, 0)
            /\ UNCHANGED sess
       ELSE /\ WorkerFree
            /\ sess' = Open(RevokeSession(u, k))
            /\ UNCHANGED resp
    /\ UNCHANGED <<keyVars, requestVars, clock, users, tokens>>

\* db.session.commit(): UPDATE ... SET status = 'revoked' by primary key.
\* When the row is gone the commit raises, the handler rolls back and
\* answers 500.
revoke_key_commit(s) ==
    /\ s \in InFlight
    /\ s.pc = "revoking"
    /\ IF s.id \notin Stored
       THEN /\ resp' = Response("revoke", s.user, s.id, 500, FALSE, "-", 0)
            /\ UNCHANGED keys
       ELSE /\ keys' = [keys EXCEPT ![s.id].status = "revoked"]
            /\ resp' = Response("revoke", s.user, s.id, 200, FALSE, "-", 0)
    /\ sess' = Close(s)
    /\ UNCHANGED <<nextKeyId, requestVars, clock, served, users, tokens>>

\* ------------------------------------------- POST /keys/<id>/remove
remove_received_key(u, k) ==
    /\ IF k \notin Stored \/ ~IsRecipient(keys[k], u)
       THEN /\ resp' = Response("remove", u, k, 404, FALSE, "-", 0)
            /\ UNCHANGED keys
       ELSE /\ keys' = [keys EXCEPT ![k].status = "removed"]
            /\ resp' = Response("remove", u, k, 200, FALSE, "-", 0)
    /\ UNCHANGED <<nextKeyId, requestVars, sess, clock, served, users, tokens>>

\* ------------------------------------------------ DELETE /keys/<id>
\* the sent-key branch refuses an active key
SentKeyDeletable(row) == row.status # "active"

delete_key(u, k) ==
    /\ IF k \in Stored /\ IsCreator(keys[k], u)
       THEN IF ~SentKeyDeletable(keys[k])
            THEN /\ resp' = Response("delete", u, k, 400, FALSE, "-", 0)
                 /\ UNCHANGED keys
            ELSE /\ keys' = Delete(keys, k)
                 /\ resp' = Response("delete", u, k, 200, FALSE, "-", 0)
       ELSE IF k \in Stored /\ IsRecipient(keys[k], u)
       THEN /\ keys' = Delete(keys, k)
            /\ resp' = Response("delete", u, k, 200, FALSE, "-", 0)
       ELSE /\ resp' = Response("delete", u, k, 404, FALSE, "-", 0)
            /\ UNCHANGED keys
    /\ UNCHANGED <<nextKeyId, requestVars, sess, clock, served, users, tokens>>

\* ------------------------------------------------ GET /keys (sweep)
\* faulty variant: a listed key that is viewed_out is made active again
SweptStatusToggle(row) ==
    IF row.status = "active" /\ row.views_used >= row.views_allowed
    THEN "viewed_out"
    ELSE IF row.status = "viewed_out" THEN "active" ELSE row.status

\* faulty variant: every listed active key is moved to viewed_out
SweptStatusAnyCount(row) ==
    IF row.status = "active" THEN "viewed_out" ELSE row.status

\* the status the reconciliation loop gives a listed key
SweptStatus(row) ==
    IF row.status = "active" /\ row.views_used >= row.views_allowed
    THEN "viewed_out" ELSE row.status

\* keys_to_update: the listed keys the loop changes
KeysToUpdate(u) ==
    {k \in Stored : IsParty(keys[k], u)
                      /\ SweptStatus(keys[k]) # keys[k].status}

\* the table after the loop and its commit, run with no other call between
SweepTable(table, u) ==
    [k \in DOMAIN table |->
        IF IsParty(table[k], u)
        THEN [table[k] EXCEPT !.status = SweptStatus(table[k])]
        ELSE table[k]]

\* the 200 body of the listing: every listed key with its user_data;
\* updated is keys_to_update, which the handler logs
ListBody(u, updated) ==
    [op |-> "list", actor |-> u, id |-> 0, code |-> 200,
     bundle |-> \E k \in Stored : IsParty(keys[k], u),
     status |-> "-", views_used |-> 0, updated |-> updated]

\* the whole handler, run with no other call between its loop and its
\* commit
get_all_keys(u) ==
    /\ keys' = SweepTable(keys, u)
    /\ resp' = ListBody(u, KeysToUpdate(u))
    /\ UNCHANGED <<nextKeyId, requestVars, sess, clock, served, users, tokens>>

\* The queries and the loop.  With nothing to update the handler does not
\* commit and answers at once; otherwise the changed objects wait in the
\* session for the commit.
get_all_keys_sweep(u) ==
    /\ IF KeysToUpdate(u) = {}
       THEN /\ resp' = ListBody(u, {})
            /\ UNCHANGED sess
       ELSE /\ WorkerFree
            /\ sess' = Open(SweepSession(u, KeysToUpdate(u)))
            /\ UNCHANGED resp
    /\ UNCHANGED <<keyVars, requestVars, clock, users, tokens>>

\* db.session.commit(): one UPDATE ... SET status = 'viewed_out' by primary
\* key for each changed object, then the listing.  When one of the rows is
\* gone the commit raises and the handler answers 500.
get_all_keys_commit(s) ==
    /\ s \in InFlight
    /\ s.pc = "sweeping"
    /\ IF ~(s.updates \subseteq Stored)
       THEN /\ resp' = Response("list", s.user, 0, 500, FALSE, "-", 0)
            /\ UNCHANGED keys
       ELSE /\ keys' = [k \in Stored |->
                          IF k \in s.updates
                          THEN [keys[k] EXCEPT !.status = "viewed_out"]
                          ELSE keys[k]]
            /\ resp' = ListBody(s.user, s.updates)
    /\ sess' = Close(s)
    /\ UNCHANGED <<nextKeyId, requestVars, clock, served, users, tokens>>

\* ------------------------------------------------------------------ Next
Next ==
    \/ \E u \in Users, r \in Recipients, v \in ViewsInputs :
          create_shareable_key(u, PlainKey(r, v))
    \/ \E u \in Users, k \in KeyIds : get_key_details_load(u, k)
    \/ \E s \in InFlight : get_key_details_commit(s)
    \/ \E u \in Users, k \in KeyIds : revoke_key_load(u, k)
    \/ \E s \in InFlight : revoke_key_commit(s)
    \/ \E u \in Users, k \in KeyIds : remove_received_key(u, k)
    \/ \E u \in Users, k \in KeyIds : delete_key(u, k)
    \/ \E u \in Users : get_all_keys(u)

Spec == Init /\ [][Next]_vars

\* One request at a time: a handler starts only when no session is open.
SeqNext ==
    \/ AllIdle /\ \E u \in Users, r \in Recipients, v \in ViewsInputs :
          create_shareable_key(u, PlainKey(r, v))
    \/ AllIdle /\ \E u \in Users, k \in KeyIds : get_key_details_load(u, k)
    \/ \E s \in InFlight : get_key_details_commit(s)
    \/ AllIdle /\ \E u \in Users, k \in KeyIds : revoke_key_load(u, k)
    \/ \E s \in InFlight : revoke_key_commit(s)
    \/ AllIdle /\ \E u \in Users, k \in KeyIds : remove_received_key(u, k)
    \/ AllIdle /\ \E u \in Users, k \in KeyIds : delete_key(u, k)
    \/ AllIdle /\ \E u \in Users : get_all_keys(u)

SeqSpec == Init /\ [][SeqNext]_vars

\* ------------------------------------------------ the sweep on any table
\* The reconciliation loop exists for rows whose status and counters have
\* fallen out of step.  SweepSpec starts from any table of up to two rows,
\* in step or not, and runs listings with concurrent workers.
SweepKeyIds == {1, 2}
SweepRows ==
    [creator : {1}, recipient : {2, NoUser},
     status : {"active", "viewed_out", "revoked", "removed"},
     views_allowed : 1 .. MaxViews, views_used : 0 .. MaxViews,
     last_viewed_at : {0}, origin : {0},
     recipient_email : {NullEmail}, label : {Null},
     information_types : {<< >>}, user_data : {EmptyDict}]

SweepInit ==
    /\ \E ids \in SUBSET SweepKeyIds : keys \in [ids -> SweepRows]
    /\ nextKeyId = 3
    /\ requests = << >>
    /\ nextRequestId = 1
    /\ sess = EmptyBag
    /\ clock = 1
    /\ resp = NoResponse
    /\ served = [k \in KeyIds |-> 0]
    /\ users = [u \in Users |-> SignedUp]
    /\ tokens = {}

SweepNext ==
    \/ \E u \in Users : get_all_keys_sweep(u)
    \/ \E s \in InFlight : get_all_keys_commit(s)

SweepSpec == SweepInit /\ [][SweepNext]_vars

\* ------------------------------------------------ POST /requests
\* Request(..., status='pending'); response_at takes the column default
\* NULL.  target is the resolved user, or NoUser for an address that
\* resolves to nobody; email is the resolved user's stored address, or the
\* address as given when it resolves to nobody.  information_types holds
\* the list that set_information_types serialises and
\* get_information_types reads back.
NewRequest(requester, target, email, label, notes, items) ==
    [requester |-> requester, target_user_id |-> target,
     target_email |-> email, status |-> "pending", response_at |-> 0,
     label |-> label, notes |-> notes, information_types |-> items]

RequestRejected(u, r, code) ==
    Response("request", u, r, code, FALSE, "-", 0)

\* The target is looked up by e-mail address and then by screen name; an
\* e-mail address is never a screen name (a screen name has no '@' inside).
create_request(u, target, label, notes, info) ==
    /\ nextRequestId \in RequestIds
    /\ IF \/ validate_title(label) # ""
          \/ ~target.present
          \/ ~InfoGiven(info)
          \/ ~InfoIsList(info)
       THEN /\ resp' = RequestRejected(u, 0, 400)
            /\ UNCHANGED requestVars
       ELSE /\ LET target_user == FindByEmail(target.email)
               IN requests' = Insert(requests, nextRequestId,
                      NewRequest(u, target_user,
                                 IF target_user # NoUser
                                 THEN Email(target_user) ELSE target.email,
                                 Strip(label),
                                 IF notes.present THEN notes.text ELSE "",
                                 info.items))
            /\ nextRequestId' = nextRequestId + 1
            /\ resp' = Response("request", u, nextRequestId, 201, FALSE,
                                "pending", 0)
    /\ UNCHANGED <<keyVars, sess, clock, users, tokens>>

\* ------------------------------------ POST /verifications (fulfill)
\* faulty variant: any user may answer a request
IsTargetAnyone(row, u) == TRUE

\* current_user.email != verification_request.target_email
IsTarget(row, u) == row.target_email = Email(u)

\* faulty variant: the status of the request is not looked at
AnswerableAlways(row) == TRUE

\* verification_request.status != 'pending'
Answerable(row) == row.status = "pending"

\* faulty variant: the key is committed on its own as soon as it is added
AfterAddCommitted(table, id, row) == Insert(table, id, row)

\* The stored shareable_keys table after db.session.add(new_key): the
\* object is pending in the session and nothing is written before the
\* commit.
AfterAdd(table, id, row) == table

\* f"Response to: {verification_request.label}": the words "Response" and
\* "to:" before the words of the request's label
ResponseLabel(label) ==
    [label EXCEPT !.words = <<Word(8, TRUE), Word(3, TRUE)>> \o @]

\* faulty variant: what the submission carries is not used
ParsedAdditionalIgnored(data) == EmptyDict

\* additional_data as the handler uses it: the parsed object, or {} when
\* the entry is absent or empty or its text does not parse
ParsedAdditional(data) ==
    IF data.additional_data.kind = "json"
    THEN data.additional_data.value ELSE EmptyDict

\* json.loads of a value that is no text raises TypeError, which the
\* handler's JSONDecodeError clause does not catch
AdditionalRaises(data) == data.additional_data.kind = "object"

\* the location entry of the bundle
FulfillLocation(data) ==
    IF data.coords
    THEN [latitude |-> Latitude, longitude |-> Longitude,
          cityDisplay |-> IF data.location_city_display.present
                          THEN data.location_city_display.value
                          ELSE "Location captured"]
    ELSE IF data.location_data.present
    THEN data.location_data.value
    ELSE [cityDisplay |-> "Location not captured", latitude |-> Null,
          longitude |-> Null]

\* the selfie / photo entry of the bundle; captured_at 0 is null
FulfillImage(entry, now) ==
    IF entry.present
    THEN [status |-> "captured", image_data |-> entry.value,
          captured_at |-> now]
    ELSE [status |-> "not_captured", image_data |-> Null, captured_at |-> 0]

\* user_data as the loop over the request's information_types builds it
FulfillUserData(u, items, data, now) ==
    LET additional == ParsedAdditional(data)
    IN  [k \in Range(items) \cap BundleTypes |->
           CASE k = "fullname" ->
                  IF "fullname" \in DOMAIN additional
                  THEN additional["fullname"]
                  ELSE IF FirstName(u) # Null /\ LastName(u) # Null
                  THEN FirstName(u) \o " " \o LastName(u)
                  ELSE "Name not available"
             [] k = "firstname" ->
                  IF "firstname" \in DOMAIN additional
                  THEN additional["firstname"]
                  ELSE IF FirstName(u) # Null THEN FirstName(u)
                  ELSE "First name not available"
             [] k = "age" ->
                  IF "age" \in DOMAIN additional
                  THEN Str(additional["age"])
                  ELSE IF age(u) # 0 THEN Str(age(u))
                  ELSE "Age not provided"
             [] k = "location" -> FulfillLocation(data)
             [] k = "selfie" -> FulfillImage(data.selfie_base64, now)
             [] k = "photo" -> FulfillImage(data.photo_base64, now)]

\* The lookups and checks, the construction of the key and its bundle and
\* db.session.add(new_key).  An exception on the way is answered 500 after
\* a rollback of a session that holds nothing yet.
submit_verification_begin(u, r, data) ==
    /\ IF r \notin DOMAIN requests
       THEN /\ resp' = Response("fulfill", u, r, 404, FALSE, "-", 0)
            /\ UNCHANGED <<keys, sess>>
       ELSE IF ~IsTarget(requests[r], u)
       THEN /\ resp' = Response("fulfill", u, r, 403, FALSE, "-", 0)
            /\ UNCHANGED <<keys, sess>>
       ELSE IF ~Answerable(requests[r])
       THEN /\ resp' = Response("fulfill", u, r, 400, FALSE,
                                requests[r].status, 0)
            /\ UNCHANGED <<keys, sess>>
       ELSE IF AdditionalRaises(data)
       THEN /\ resp' = Response("fulfill", u, r, 500, FALSE, "-", 0)
            /\ UNCHANGED <<keys, sess>>
       ELSE /\ WorkerFree
            /\ LET row ==
                    NewKey(u, requests[r].requester,
                           NormalizeViews(data.views_allowed), r,
                           KeyContent(
                               Email(requests[r].requester),
                               ResponseLabel(requests[r].label),
                               requests[r].information_types,
                               FulfillUserData(
                                   u, requests[r].information_types, data,
                                   clock)))
               IN /\ keys' = AfterAdd(keys, nextKeyId, row)
                  /\ sess' = Open(FulfillSession("key_added", u, r, row, 0))
            /\ UNCHANGED resp
    /\ UNCHANGED <<nextKeyId, requestVars, clock, served, users, tokens>>

\* verification_request.status = 'completed'; response_at = utcnow(): the
\* loaded object changes, the table does not
submit_verification_set_status(s) ==
    /\ s \in InFlight
    /\ s.pc = "key_added"
    /\ sess' = Close(s) (+) SetToBag({[s EXCEPT !.pc = "status_set",
                                                !.at = clock]})
    /\ UNCHANGED <<keyVars, requestVars, clock, resp, users, tokens>>

\* db.session.commit(), first half: the flush has sent the INSERT of the
\* key inside the open transaction; no other session sees it
submit_verification_flush(s) ==
    /\ s \in InFlight
    /\ s.pc = "status_set"
    /\ sess' = Close(s) (+) SetToBag({[s EXCEPT !.pc = "key_inserted"]})
    /\ UNCHANGED <<keyVars, requestVars, clock, resp, users, tokens>>

\* db.session.commit(), second half: the UPDATE of the request by primary
\* key and the COMMIT, which makes both writes durable together.  When the
\* request row is gone the UPDATE matches nothing, the commit raises and the
\* handler rolls back.
submit_verification_commit(s) ==
    /\ s \in InFlight
    /\ s.pc = "key_inserted"
    /\ IF s.id \notin DOMAIN requests
       THEN /\ resp' = Response("fulfill", s.user, s.id, 500, FALSE, "-", 0)
            /\ UNCHANGED <<keys, nextKeyId, requests>>
       ELSE /\ keys' = Insert(keys, nextKeyId, s.new_key)
            /\ nextKeyId' = nextKeyId + 1
            /\ requests' = [requests EXCEPT
                              ![s.id].status = "completed",
                              ![s.id].response_at = s.at]
            /\ resp' = Response("fulfill", s.user, s.id, 201, FALSE,
                                "completed", 0)
    /\ sess' = Close(s)
    /\ UNCHANGED <<nextRequestId, clock, served, users, tokens>>

\* An exception anywhere between db.session.add and the end of the commit
\* (a storage fault, a crash of the worker): db.session.rollback() and 500.
\* The open transaction is discarded.
submit_verification_fail(s) ==
    /\ s \in InFlight
    /\ s.pc \in {"key_added", "status_set", "key_inserted"}
    /\ resp' = Response("fulfill", s.user, s.id, 500, FALSE, "-", 0)
    /\ sess' = Close(s)
    /\ UNCHANGED <<keyVars, requestVars, clock, users, tokens>>

FulfillNext ==
    \/ \E u \in Users, t \in TargetInputs, l \in LabelInputs,
          n \in NotesInputs, i \in InfoInputs :
          create_request(u, t, l, n, i)
    \/ \E u \in Users, r \in RequestIds, v \in ViewsInputs :
          submit_verification_begin(u, r, PlainAnswer(v))
    \/ \E s \in InFlight : submit_verification_set_status(s)
    \/ \E s \in InFlight : submit_verification_flush(s)
    \/ \E s \in InFlight : submit_verification_commit(s)
    \/ \E s \in InFlight : submit_verification_fail(s)

FulfillSpec == Init /\ [][FulfillNext]_vars

\* ------------------------------------ POST /requests/<id>/deny
\* The lookups and checks; status = 'denied' and response_at = utcnow()
\* change the loaded object only.
deny_request_load(u, r) ==
    /\ IF r \notin DOMAIN requests
       THEN /\ resp' = Response("deny", u, r, 404, FALSE, "-", 0)
            /\ UNCHANGED sess
       ELSE IF ~IsTarget(requests[r], u)
       THEN /\ resp' = Response("deny", u, r, 403, FALSE, "-", 0)
            /\ UNCHANGED sess
       ELSE IF ~Answerable(requests[r])
       THEN /\ resp' = Response("deny", u, r, 400, FALSE,
                                requests[r].status, 0)
            /\ UNCHANGED sess
       ELSE /\ WorkerFree
            /\ sess' = Open(DenySession(u, r, clock))
            /\ UNCHANGED resp
    /\ UNCHANGED <<keyVars, requestVars, clock, users, tokens>>

\* db.session.commit(): UPDATE of status and response_at by primary key.
\* When the row is gone the commit raises, the handler rolls back and
\* answers 500.
deny_request_commit(s) ==
    /\ s \in InFlight
    /\ s.pc = "denying"
    /\ IF s.id \notin DOMAIN requests
       THEN /\ resp' = Response("deny", s.user, s.id, 500, FALSE, "-", 0)
            /\ UNCHANGED requests
       ELSE /\ requests' = [requests EXCEPT ![s.id].status = "denied",
                                            ![s.id].response_at = s.at]
            /\ resp' = Response("deny", s.user, s.id, 200, FALSE,
                                "denied", 0)
    /\ sess' = Close(s)
    /\ UNCHANGED <<keyVars, nextRequestId, clock, users, tokens>>

\* ------------------------------------ PUT /requests/<id>
\* faulty variant: any user may update a request
IsRequesterAnyone(row, u) == TRUE

\* verification_request.requester_id != current_user_id
IsRequester(row, u) == row.requester = u

\* The attribute changes of the handler, in its order; a return before the
\* commit leaves the stored row as it was.
update_request(u, r, label, notes, info) ==
    /\ IF r \notin DOMAIN requests
       THEN /\ resp' = Response("update", u, r, 404, FALSE, "-", 0)
            /\ UNCHANGED requests
       ELSE IF ~IsRequester(requests[r], u)
       THEN /\ resp' = Response("update", u, r, 403, FALSE, "-", 0)
            /\ UNCHANGED requests
       ELSE IF ~Answerable(requests[r])
       THEN /\ resp' = Response("update", u, r, 400, FALSE,
                                requests[r].status, 0)
            /\ UNCHANGED requests
       ELSE IF \/ label.present /\ validate_title(label) # ""
               \/ info.kind = "other"
       THEN /\ resp' = Response("update", u, r, 400, FALSE, "-", 0)
            /\ UNCHANGED requests
       ELSE /\ requests' = [requests EXCEPT
                 ![r].label = IF label.present THEN Strip(label) ELSE @,
                 ![r].notes = IF notes.present THEN notes.text ELSE @,
                 ![r].information_types =
                     IF info.kind = "list" THEN info.items ELSE @]
            /\ resp' = Response("update", u, r, 200, FALSE, "pending", 0)
    /\ UNCHANGED <<keyVars, nextRequestId, sess, clock, users, tokens>>

\* ------------------------------------ RequestValidator
valid_types == {"fullname", "firstname", "age", "location", "selfie", "photo"}

\* the checks validate_request_data makes on information_types
CategoriesValid(items) ==
    /\ items # << >>
    /\ \A i \in DOMAIN items : items[i] \in valid_types
    /\ ~(/\ \E i \in DOMAIN items : items[i] = "fullname"
         /\ \E i \in DOMAIN items : items[i] = "firstname")

\* ------------------------------------ DELETE /requests/<id> (cancel)
\* the key the requester's branch looks for: from the target to the
\* requester, with the notes fulfill writes for this request
ExistingKey(r) ==
    \E k \in Stored :
        /\ keys[k].creator = requests[r].target_user_id
        /\ keys[k].recipient = requests[r].requester
        /\ keys[k].origin = r

\* the statuses the requester's branch lets through
DeletableStatuses == {"pending", "denied", "cancelled", "completed"}

delete_request(u, r) ==
    /\ IF r \notin DOMAIN requests
       THEN /\ resp' = Response("cancel", u, r, 404, FALSE, "-", 0)
            /\ UNCHANGED requests
       ELSE IF ~(IsRequester(requests[r], u) \/ IsTarget(requests[r], u))
       THEN /\ resp' = Response("cancel", u, r, 403, FALSE, "-", 0)
            /\ UNCHANGED requests
       ELSE IF /\ IsRequester(requests[r], u)
               /\ \/ requests[r].status = "completed" /\ ExistingKey(r)
                  \/ requests[r].status \notin DeletableStatuses
       THEN /\ resp' = Response("cancel", u, r, 400, FALSE,
                                requests[r].status, 0)
            /\ UNCHANGED requests
       ELSE /\ requests' = Delete(requests, r)
            /\ resp' = Response("cancel", u, r, 200, FALSE, "-", 0)
    /\ UNCHANGED <<keyVars, nextRequestId, sess, clock, users, tokens>>

\* ------------------------------------ POST /profile/delete
\* the columns of a persisted user the handler assigns; every registered
\* user has them set (nullable=False)
\* User.__setattr__ on a persisted object outside the verification pathway
ProtectedFields == {"first_name", "last_name", "date_of_birth"}
\* None in the column of a field
NoneOf(field) == IF field = "date_of_birth" THEN NoDate ELSE Null

\* faulty variant: the guard lets every write through
SetAttrNeverRaises(field, current, value) == FALSE

SetAttrRaises(field, current, value) ==
    field \in ProtectedFields /\ current # NoneOf(field) /\ current # value

\* An assignment user.<field> = value to a loaded user outside
\* update_verified_info, and the commit of the session when it did not
\* raise; a ValueError leaves the session to be rolled back.
User_setattr(u, field, value) ==
    /\ IF SetAttrRaises(field, users[u][field], value)
       THEN /\ resp' = Response("setattr", u, 0, 500, FALSE, "-", 0)
            /\ UNCHANGED users
       ELSE /\ users' = [users EXCEPT ![u][field] = value]
            /\ resp' = Response("setattr", u, 0, 200, FALSE, "-", 0)
    /\ UNCHANGED <<keyVars, requestVars, sess, clock, tokens>>

\* age is a property without a setter: user.age = None raises
AgeIsSettable == FALSE

\* app.config.get('USE_SOFT_DELETE', True); the key is never configured
USE_SOFT_DELETE == TRUE

\* the soft-delete branch raises before it reaches its commit
SoftDeleteRaises(u) ==
    \/ SetAttrRaises("first_name", FirstName(u), Null)
    \/ SetAttrRaises("last_name", LastName(u), Null)
    \/ ~AgeIsSettable

\* Soft mode.  An exception rolls the session back and answers 500; a run
\* that reaches the commit revokes the user's active keys and cancels the
\* pending requests the user is a party of.
delete_account(u, password_ok) ==
    /\ USE_SOFT_DELETE
    /\ IF ~password_ok
       THEN /\ resp' = Response("delete_account", u, 0, 401, FALSE, "-", 0)
            /\ UNCHANGED <<keys, requests, users>>
       ELSE IF SoftDeleteRaises(u)
       THEN /\ resp' = Response("delete_account", u, 0, 500, FALSE, "-", 0)
            /\ UNCHANGED <<keys, requests, users>>
       ELSE /\ users' = [users EXCEPT ![u].is_active = FALSE,
                                      ![u].first_name = Null,
                                      ![u].last_name = Null]
            /\ keys' = [k \in Stored |->
                          IF IsCreator(keys[k], u) /\ keys[k].status = "active"
                          THEN [keys[k] EXCEPT !.status = "revoked"]
                          ELSE keys[k]]
            /\ requests' = [r \in DOMAIN requests |->
                          IF /\ \/ requests[r].requester = u
                                \/ requests[r].target_user_id = u
                             /\ requests[r].status = "pending"
                          THEN [requests[r] EXCEPT !.status = "cancelled"]
                          ELSE requests[r]]
            /\ resp' = Response("delete_account", u, 0, 200, FALSE, "-", 0)
    /\ UNCHANGED <<nextKeyId, served, nextRequestId, sess, clock, tokens>>

\* ------------------------------------------------ the request lifecycle
\* Requests with concurrent workers; the bodies offered are the valid one
\* for POST /requests and a change of label or none for PUT.
RequestNext ==
    \/ \E u \in Users, t \in Recipients :
          create_request(u, Target(t), GoodLabel, NotesAbsent, GoodInfo)
    \/ \E u \in Users, r \in RequestIds, v \in ViewsInputs :
          submit_verification_begin(u, r, PlainAnswer(v))
    \/ \E s \in InFlight : submit_verification_set_status(s)
    \/ \E s \in InFlight : submit_verification_flush(s)
    \/ \E s \in InFlight : submit_verification_commit(s)
    \/ \E u \in Users, r \in RequestIds : deny_request_load(u, r)
    \/ \E s \in InFlight : deny_request_commit(s)
    \/ \E u \in Users, r \in RequestIds, l \in LabelInputs :
          update_request(u, r, l, NotesAbsent, InfoAbsent)
    \/ \E u \in Users, r \in RequestIds : delete_request(u, r)
    \/ \E u \in Users, ok \in BOOLEAN : delete_account(u, ok)

RequestSpec == Init /\ [][RequestNext]_vars

\* requests, one call at a time, with every body
SeqRequestNext ==
    \/ AllIdle /\ \E u \in Users, t \in TargetInputs, l \in LabelInputs,
          n \in NotesInputs, i \in InfoInputs :
          create_request(u, t, l, n, i)
    \/ AllIdle /\ \E u \in Users, r \in RequestIds, v \in ViewsInputs :
          submit_verification_begin(u, r, PlainAnswer(v))
    \/ \E s \in InFlight : submit_verification_set_status(s)
    \/ \E s \in InFlight : submit_verification_flush(s)
    \/ \E s \in InFlight : submit_verification_commit(s)
    \/ AllIdle /\ \E u \in Users, r \in RequestIds : deny_request_load(u, r)
    \/ \E s \in InFlight : deny_request_commit(s)
    \/ AllIdle /\ \E u \in Users, r \in RequestIds, l \in LabelInputs,
          n \in NotesInputs, i \in InfoInputs :
          update_request(u, r, l, n, i)
    \/ AllIdle /\ \E u \in Users, r \in RequestIds : delete_request(u, r)
    \/ AllIdle /\ \E u \in Users, ok \in BOOLEAN : delete_account(u, ok)

SeqRequestSpec == Init /\ [][SeqRequestNext]_vars

\* both ways of minting a key, one call at a time
\* the bodies of ViewsInputs and a number that is not whole
MintViewsInputs == ViewsInputs \cup {ViewsFraction(0, 4)}

MintNext ==
    \/ AllIdle /\ \E u \in Users, r \in Recipients, v \in MintViewsInputs :
          create_shareable_key(u, PlainKey(r, v))
    \/ AllIdle /\ \E u \in Users, t \in Recipients :
          create_request(u, Target(t), GoodLabel, NotesAbsent, GoodInfo)
    \/ AllIdle /\ \E u \in Users, r \in RequestIds, v \in MintViewsInputs :
          submit_verification_begin(u, r, PlainAnswer(v))
    \/ \E s \in InFlight : submit_verification_set_status(s)
    \/ \E s \in InFlight : submit_verification_flush(s)
    \/ \E s \in InFlight : submit_verification_commit(s)

MintSpec == Init /\ [][MintNext]_vars

\* ------------------------------------------------ the verification pathway
\* what an identity check establishes: names and a date of birth that
\* differ from the self-reported ones
VerifiedFirst == "Vfirst"
VerifiedLast == "Vlast"
VerifiedBirth == 1989

\* User.update_verified_info: each verified_* column is assigned when its
\* argument is not None (Null / NoDate here); is_verified becomes True.
\* No handler of the application calls it; the verification outcome is
\* written by the review process.
update_verified_info(u, first_name, last_name, date_of_birth) ==
    /\ users' = [users EXCEPT
          ![u].verified_first_name =
              IF first_name # Null THEN first_name ELSE @,
          ![u].verified_last_name =
              IF last_name # Null THEN last_name ELSE @,
          ![u].verified_date_of_birth =
              IF date_of_birth # NoDate THEN date_of_birth ELSE @,
          ![u].is_verified = TRUE]
    /\ resp' = Response("verified", u, 0, 200, FALSE, "-", 0)
    /\ UNCHANGED <<keyVars, requestVars, sess, clock, tokens>>

\* ------------------------------------------------ POST /profile
\* immutable: the body names first_name, last_name, date_of_birth or age.
\* The handler refuses that for an unverified user and otherwise assigns
\* email, screen_name, profile_image_url and bio only, columns that no key
\* and no bundle is built from.
update_profile(u, immutable) ==
    /\ resp' = IF immutable /\ ~users[u].is_verified
               THEN Response("profile", u, 0, 403, FALSE, "-", 0)
               ELSE Response("profile", u, 0, 200, FALSE, "-", 0)
    /\ UNCHANGED <<keyVars, requestVars, sess, clock, users, tokens>>

\* ------------------------------------------------ bundles
\* One request at a time.  User 1 creates keys and answers requests and is
\* the user whose verification changes; user 2 asks and receives.  The
\* bodies come with and without captured values.
BundleCreators == {1}
BundleUsers == {1, 2}
BundleInfoInputs ==
    { InfoList(<<"age", "location">>),
      InfoList(<<"fullname", "selfie">>),
      InfoList(<<"firstname", "photo">>) }
BundleKeyInputs ==
    { KeyData(GoodLabel, Target(2), ViewsAbsent, i, c[1], c[2], c[3],
              NoEntry, FALSE) :
        i \in BundleInfoInputs,
        c \in { <<NoEntry, NoEntry, NoEntry>>,
                <<Entry(CityAndCoords), NoEntry, Entry("jpeg")>>,
                <<NoEntry, Entry([location |-> CoordsOnly]), NoEntry>> } }
BundleAnswerInputs ==
    { AnswerData(ViewsAbsent, AdditionalAbsent, FALSE, NoEntry, NoEntry,
                 NoEntry, NoEntry),
      AnswerData(ViewsAbsent, AdditionalGarbage, FALSE, NoEntry, NoEntry,
                 NoEntry, Entry("jpeg")),
      AnswerData(ViewsAbsent, AdditionalJson([age |-> 40]), FALSE, NoEntry,
                 NoEntry, NoEntry, NoEntry),
      AnswerData(ViewsAbsent, AdditionalJson([age |-> 40]), TRUE,
                 Entry(City), NoEntry, NoEntry, NoEntry),
      AnswerData(ViewsAbsent,
                 AdditionalJson([fullname |-> "Alex Doe",
                                 firstname |-> "Alex"]),
                 FALSE, NoEntry, Entry(CityAndCoords), Entry("jpeg"),
                 NoEntry),
      AnswerData(ViewsAbsent, AdditionalObject([age |-> 40]), FALSE,
                 NoEntry, NoEntry, NoEntry, NoEntry) }

BundleNext ==
    \/ AllIdle /\ \E u \in BundleCreators, d \in BundleKeyInputs :
          create_shareable_key(u, d)
    \/ AllIdle /\ \E u \in BundleUsers \ BundleCreators,
                     t \in BundleCreators, i \in BundleInfoInputs :
          create_request(u, Target(t), GoodLabel, NotesAbsent, i)
    \/ AllIdle /\ \E u \in BundleUsers, r \in RequestIds,
                     d \in BundleAnswerInputs :
          submit_verification_begin(u, r, d)
    \/ \E s \in InFlight : submit_verification_set_status(s)
    \/ \E s \in InFlight : submit_verification_flush(s)
    \/ \E s \in InFlight : submit_verification_commit(s)
    \/ AllIdle /\ \E u \in BundleUsers, k \in KeyIds :
          get_key_details_load(u, k)
    \/ \E s \in InFlight : get_key_details_commit(s)
    \/ AllIdle /\ \E u \in BundleUsers, k \in KeyIds : revoke_key_load(u, k)
    \/ \E s \in InFlight : revoke_key_commit(s)
    \/ AllIdle /\ \E u \in BundleUsers, k \in KeyIds :
          remove_received_key(u, k)
    \/ AllIdle /\ \E u \in BundleUsers : get_all_keys(u)
    \/ AllIdle /\ \E u \in BundleCreators :
          \/ update_verified_info(u, VerifiedFirst, VerifiedLast,
                                  VerifiedBirth)
          \/ update_verified_info(u, Null, Null, NoDate)
    \/ AllIdle /\ \E u \in BundleCreators, immutable \in BOOLEAN :
          update_profile(u, immutable)

BundleSpec == Init /\ [][BundleNext]_vars

\* ============================================================ properties
\* u is neither creator nor recipient of the stored key k
IsOutsider(k, u) == k \in Stored /\ ~(keys[k].creator = u \/ keys[k].recipient = u)

C2_LoserRejected ==
    [][\A s \in InFlight :
          (/\ get_key_details_commit(s)
           /\ s.id \in Stored
           /\ keys[s.id].status = "viewed_out"
           /\ keys[s.id].views_used >= keys[s.id].views_allowed)
          => ~resp'.bundle]_vars

\* C3: every stored key that is active or viewed_out is viewed_out exactly
\* when views_used >= views_allowed.
C3_StatusDerivable ==
    \A k \in Stored :
        keys[k].status \in {"active", "viewed_out"} =>
            (keys[k].status = "viewed_out"
                <=> keys[k].views_used >= keys[k].views_allowed)

\* C4: a details call by the bound recipient on a revoked key is rejected
\* and returns no bundle.
C4_RevokedNotServed ==
    \A k \in Stored :
        (/\ keys[k].status = "revoked"
         /\ resp.op = "details" /\ resp.id = k
         /\ resp.actor = keys[k].recipient)
        => (resp.code # 200 /\ ~resp.bundle)

\* C5: every change of a stored key's status is active -> viewed_out,
\* active -> revoked or active -> removed; a revoked key stays revoked.
C5_StatusTransitions ==
    [][\A k \in Stored \cap DOMAIN keys' :
          keys'[k].status # keys[k].status =>
              (/\ keys[k].status = "active"
               /\ keys'[k].status \in {"viewed_out", "revoked", "removed"})
      ]_vars

\* a stored key was minted from request r
Minted(r) == \E k \in Stored : keys[k].origin = r

\* C6: fulfill is atomic: in every reachable state, also after a fault at any
\* point of the transaction, a request is completed exactly when a key minted
\* from it is stored and its response_at is set; a failed call leaves the
\* request pending with no key.
C6_FulfillAtomic ==
    \A r \in DOMAIN requests :
        /\ requests[r].status = "completed" <=> Minted(r)
        /\ requests[r].status = "completed" <=> requests[r].response_at # 0

\* a fault hit a transaction that had flushed the key, and the request is
\* pending without a key
C6_Witness ==
    \E r \in DOMAIN requests :
        /\ resp = Response("fulfill", requests[r].target_user_id, r, 500,
                           FALSE, "-", 0)
        /\ requests[r].status = "pending"
        /\ ~Minted(r)

\* C7: the details, revoke, remove and delete calls of a user who is neither
\* creator nor recipient of a key are rejected, return no bundle and leave the
\* key as it is; the listing gives that user no bundle either.
C7_OutsiderRejected ==
    [][\A u \in Users, k \in KeyIds :
          IsOutsider(k, u) =>
            /\ (\/ get_key_details_load(u, k)
                \/ revoke_key_load(u, k)
                \/ remove_received_key(u, k)
                \/ delete_key(u, k))
               => (resp'.code = 404 /\ ~resp'.bundle /\ keys' = keys)
            /\ get_all_keys(u) => (~resp'.bundle /\ keys' = keys)
      ]_vars

C7_Witness ==
    /\ IsOutsider(resp.id, resp.actor)
    /\ resp.op \in {"details", "revoke", "remove", "delete"}
    /\ resp.code = 404
    /\ keys[resp.id].status = "active"

\* C8: on a key with views_allowed = 2, sequential details calls of the bound
\* recipient: the first two return the bundle, the second leaves the key
\* viewed_out with views_used = 2, and every further call is rejected with
\* the status and counter reported and the key unchanged.
C8_ScenarioA ==
    [][\A k \in Stored :
          keys[k].views_allowed = 2 =>
            /\ \A s \in InFlight :
                 (get_key_details_commit(s) /\ s.id = k) =>
                    /\ keys[k].status = "active"
                    /\ keys[k].views_used \in {0, 1}
                    /\ resp'.code = 200 /\ resp'.bundle
                    /\ keys'[k].views_used = keys[k].views_used + 1
                    /\ resp'.views_used = keys'[k].views_used
                    /\ resp'.status = keys'[k].status
                    /\ keys'[k].status = IF keys[k].views_used = 1
                                         THEN "viewed_out" ELSE "active"
            /\ (/\ get_key_details_load(keys[k].recipient, k)
                /\ keys[k].status = "active")
               => (keys[k].views_used < 2 /\ sess' # sess)
            /\ (/\ get_key_details_load(keys[k].recipient, k)
                /\ keys[k].status = "viewed_out")
               => /\ keys[k].views_used = 2
                  /\ resp'.code = 403 /\ ~resp'.bundle
                  /\ resp'.status = keys[k].status
                  /\ resp'.views_used = keys[k].views_used
                  /\ keys' = keys
      ]_vars

\* the third call: rejected after two counted views
C8_Witness ==
    \E k \in Stored :
        /\ keys[k].views_allowed = 2 /\ keys[k].views_used = 2
        /\ keys[k].status = "viewed_out"
        /\ served[k] = 2
        /\ resp = ExhaustedBody(keys[k].recipient, k, keys[k])

\* C9: delete succeeds exactly when the actor is creator or recipient and the
\* key is not active; a delete of an active key is rejected and leaves the
\* key stored and unchanged.
C9_DeleteNeedsTerminal ==
    [][\A u \in Users, k \in KeyIds :
          delete_key(u, k) =>
            /\ resp'.code = 200
                 <=> (/\ k \in Stored
                      /\ keys[k].creator = u \/ keys[k].recipient = u
                      /\ keys[k].status # "active")
            /\ resp'.code = 200 <=> k \in Stored \ DOMAIN keys'
            /\ resp'.code # 200 => keys' = keys
      ]_vars

\* C10: with one request at a time, revoke changes a key only when the actor
\* is its creator and the key is active, then status becomes revoked and
\* nothing else changes; any other revoke is rejected and leaves the key
\* unchanged.
C10_RevokeContract ==
    [][/\ \A u \in Users, k \in KeyIds :
            revoke_key_load(u, k) =>
              /\ keys' = keys
              /\ IF /\ k \in Stored
                    /\ keys[k].creator = u
                    /\ keys[k].status = "active"
                 THEN sess' = Open(RevokeSession(u, k)) /\ resp' = resp
                 ELSE /\ sess' = sess
                      /\ resp'.op = "revoke" /\ resp'.actor = u
                      /\ resp'.code \in {400, 404}
       /\ \A s \in InFlight :
            revoke_key_commit(s) =>
              /\ s.id \in Stored
              /\ keys[s.id].creator = s.user
              /\ keys[s.id].status = "active"
              /\ resp'.code = 200
              /\ keys' = [keys EXCEPT ![s.id].status = "revoked"]
              /\ keys'[s.id].views_used = keys[s.id].views_used
      ]_vars

\* a rejected revoke of a key that is not active, by its creator
C10_Witness ==
    \E k \in Stored :
        /\ resp.op = "revoke" /\ resp.id = k /\ resp.code = 400
        /\ resp.actor = keys[k].creator
        /\ keys[k].status \in {"viewed_out", "revoked", "removed"}

\* C11: every change of a stored request's status is pending -> completed,
\* pending -> denied or pending -> cancelled; a request that is completed,
\* denied or cancelled keeps its status.
C11_RequestStatusTransitions ==
    [][\A r \in DOMAIN requests \cap DOMAIN requests' :
          requests'[r].status # requests[r].status =>
              (/\ requests[r].status = "pending"
               /\ requests'[r].status \in
                     {"completed", "denied", "cancelled"})
      ]_vars

\* C12: with one call at a time, a fulfill by a user who is not the target of
\* the request is rejected and changes neither table; a fulfill by the target
\* of a pending request stores exactly one new key, from the responder to the
\* requester, active with views_used = 0, and sets the request to completed
\* with response_at set.
C12_FulfillContract ==
    [][/\ \A u \in Users, r \in RequestIds, v \in ViewsInputs :
            ( /\ submit_verification_begin(u, r, PlainAnswer(v))
              /\ r \in DOMAIN requests ) =>
              /\ keys' = keys /\ requests' = requests
              /\ IF requests[r].target_user_id # u
                 THEN resp'.code = 403 /\ sess' = sess
                 ELSE requests[r].status = "pending" => sess' # sess
       /\ \A s \in InFlight :
            submit_verification_commit(s) =>
              /\ s.id \in DOMAIN requests
              /\ requests[s.id].target_user_id = s.user
              /\ requests[s.id].status = "pending"
              /\ resp'.code = 201
              /\ nextKeyId \notin Stored
              /\ DOMAIN keys' = Stored \cup {nextKeyId}
              /\ \A k \in Stored : keys'[k] = keys[k]
              /\ keys'[nextKeyId].creator = s.user
              /\ keys'[nextKeyId].recipient = requests[s.id].requester
              /\ keys'[nextKeyId].status = "active"
              /\ keys'[nextKeyId].views_used = 0
              /\ requests'[s.id].response_at # 0
              /\ requests' = [requests EXCEPT
                                ![s.id].status = "completed",
                                ![s.id].response_at = requests'[s.id].response_at]
      ]_vars

\* the target's fulfill of another user's request has been answered 201
C12_Witness ==
    \E r \in DOMAIN requests :
        /\ resp = Response("fulfill", requests[r].target_user_id, r, 201,
                           FALSE, "completed", 0)
        /\ requests[r].requester # requests[r].target_user_id
        /\ requests[r].status = "completed"
        /\ Cardinality({k \in Stored : keys[k].origin = r}) = 1

\* C13: with one call at a time, deny changes a request only when the actor
\* is its target and the request is pending, then status becomes denied and
\* response_at is set; a deny by anyone else or of a request that is not
\* pending is rejected and leaves the request unchanged.
C13_DenyContract ==
    [][/\ \A u \in Users, r \in RequestIds :
            deny_request_load(u, r) =>
              /\ requests' = requests
              /\ IF /\ r \in DOMAIN requests
                    /\ requests[r].target_user_id = u
                    /\ requests[r].status = "pending"
                 THEN sess' = Open(DenySession(u, r, clock)) /\ resp' = resp
                 ELSE /\ sess' = sess
                      /\ resp'.op = "deny" /\ resp'.actor = u
                      /\ resp'.code \in {400, 403, 404}
       /\ \A s \in InFlight :
            deny_request_commit(s) =>
              /\ s.id \in DOMAIN requests
              /\ requests[s.id].target_user_id = s.user
              /\ requests[s.id].status = "pending"
              /\ resp'.code = 200
              /\ s.at # 0
              /\ requests' = [requests EXCEPT ![s.id].status = "denied",
                                             ![s.id].response_at = s.at]
      ]_vars

\* the requester's deny of their own pending request has been rejected
C13_Witness ==
    \E r \in DOMAIN requests :
        /\ resp = Response("deny", requests[r].requester, r, 403, FALSE,
                           "-", 0)
        /\ requests[r].requester # requests[r].target_user_id
        /\ requests[r].status = "pending"

\* C14: update changes label, notes or categories only when the actor is the
\* requester and the request is pending; an update by anyone else or of a
\* request that is not pending is rejected and leaves the request, its status
\* included, unchanged; no update changes the status.
C14_UpdateContract ==
    [][\A u \in Users, r \in RequestIds :
          (resp'.op = "update" /\ resp'.actor = u /\ resp'.id = r) =>
            \A l \in LabelInputs, n \in NotesInputs, i \in InfoInputs :
              update_request(u, r, l, n, i) =>
                IF /\ r \in DOMAIN requests
                   /\ requests[r].requester = u
                   /\ requests[r].status = "pending"
                THEN /\ resp'.code \in {200, 400}
                     /\ resp'.code = 400 => requests' = requests
                     /\ requests' = [requests EXCEPT
                          ![r].label = requests'[r].label,
                          ![r].notes = requests'[r].notes,
                          ![r].information_types =
                              requests'[r].information_types]
                ELSE /\ resp'.code \in {400, 403, 404}
                     /\ requests' = requests
      ]_vars

\* the requester's update of a request that is no longer pending has been
\* rejected
C14_Witness ==
    \E r \in DOMAIN requests :
        /\ resp = Response("update", requests[r].requester, r, 400, FALSE,
                           requests[r].status, 0)
        /\ requests[r].status \in {"completed", "denied"}

\* C15: a cancel of a request that is completed, denied or cancelled is
\* rejected and leaves the request stored and unchanged; a cancel by a user
\* who is neither requester nor target is rejected.
C15_CancelGuard ==
    [][\A u \in Users, r \in RequestIds :
          (delete_request(u, r) /\ r \in DOMAIN requests) =>
            /\ requests[r].status \in {"completed", "denied", "cancelled"}
                 => (resp'.code # 200 /\ requests' = requests)
            /\ (requests[r].requester # u /\ requests[r].target_user_id # u)
                 => (resp'.code # 200 /\ requests' = requests)
      ]_vars

\* C16: no stored request has requester_id equal to target_user_id.
C16_NoSelfTarget ==
    \A r \in DOMAIN requests :
        requests[r].requester # requests[r].target_user_id

\* C17: the category list of every stored request is non-empty, holds only
\* valid categories and does not hold both fullname and firstname.
C17_CategoriesValid ==
    \A r \in DOMAIN requests : CategoriesValid(requests[r].information_types)

\* C18: the sweep is idempotent: when a listing has run its reconciliation,
\* with or without a commit, the same listing run again right after it
\* changes no key, so two runs in a row leave what one run leaves.
C18_SweepIdempotent ==
    [][/\ \A s \in InFlight :
            get_all_keys_commit(s) => SweepTable(keys', s.user) = keys'
       /\ \A u \in Users :
            (get_all_keys_sweep(u) /\ sess' = sess) =>
                (keys' = keys /\ SweepTable(keys', u) = keys')
       /\ \A u \in Users :
            SweepTable(SweepTable(keys, u), u) = SweepTable(keys, u)
      ]_vars

\* a listing has moved a key to viewed_out and no call is in flight
C18_Witness ==
    /\ resp.op = "list" /\ resp.code = 200
    /\ resp.updated # {}
    /\ \A k \in resp.updated : keys[k].status = "viewed_out"
    /\ AllIdle

\* C19: a sweep changes a key only from active to viewed_out and only when
\* views_used >= views_allowed; it changes no other column, stores and
\* deletes no key, and leaves every viewed_out, revoked or removed key as it
\* is, also when sweeps overlap.
C19_SweepFrame ==
    [][/\ DOMAIN keys' = DOMAIN keys
       /\ \A k \in Stored :
            keys'[k] # keys[k] =>
              /\ keys[k].status = "active"
              /\ keys[k].views_used >= keys[k].views_allowed
              /\ keys'[k] = [keys[k] EXCEPT !.status = "viewed_out"]
      ]_vars

\* two sweeps overlapped on a key: one has committed, the other still holds
\* the key in its keys_to_update
C19_Witness ==
    \E s \in InFlight :
        /\ s.pc = "sweeping"
        /\ \E k \in s.updates :
              keys[k].status = "viewed_out" /\ resp.op = "list"
                  /\ k \in resp.updated

\* C20: every key that POST /keys or a fulfilment persists is active with
\* views_used = 0 and views_allowed >= 1; a views_allowed <= 0 in the body
\* is stored as 2, an absent one as 2, a positive one as given.
C20_NewKeyShape ==
    [][LET PromisedViews(body) ==
               IF ~body.present THEN {2}
               ELSE IF NonPositive(body) THEN {2}
               ELSE IF body.tenths = 0 THEN {body.value}
               ELSE {body.value, body.value + 1}
       IN
       /\ \A k \in DOMAIN keys' \ DOMAIN keys :
            /\ keys'[k].status = "active"
            /\ keys'[k].views_used = 0
            /\ keys'[k].views_allowed >= 1
       /\ \A u \in Users, r \in Recipients, v \in MintViewsInputs :
            create_shareable_key(u, PlainKey(r, v)) =>
                keys'[nextKeyId].views_allowed \in PromisedViews(v)
       /\ \A u \in Users, r \in RequestIds, v \in MintViewsInputs :
            (submit_verification_begin(u, r, PlainAnswer(v)) /\ sess' # sess) =>
                \A s \in BagToSet(sess') :
                    s.new_key.views_allowed \in PromisedViews(v)
       /\ \A s \in InFlight :
            (submit_verification_commit(s) /\ keys' # keys) =>
                keys'[nextKeyId] = s.new_key
      ]_vars

\* C21: a counted view by the recipient that uses up the last view
\* (views_used becomes views_allowed) is answered 200 with the bundle and
\* with status viewed_out, in that same call.
C21_LastViewServed ==
    [][\A s \in InFlight :
          ( /\ get_key_details_commit(s)
            /\ s.id \in Stored
            /\ keys'[s.id].views_used = keys'[s.id].views_allowed )
          => /\ resp'.op = "details" /\ resp'.actor = s.user
             /\ resp'.code = 200
             /\ resp'.bundle
             /\ resp'.status = "viewed_out"
             /\ keys'[s.id].status = "viewed_out"
      ]_vars

\* the recipient has just been served the bundle by the call that exhausted
\* an active key
C21_Witness ==
    /\ resp.op = "details" /\ resp.code = 200 /\ resp.bundle
    /\ resp.status = "viewed_out"
    /\ resp.id \in Stored
    /\ keys[resp.id].recipient = resp.actor
    /\ keys[resp.id].creator # resp.actor
    /\ keys[resp.id].views_used = keys[resp.id].views_allowed
    /\ keys[resp.id].last_viewed_at = clock - 1

\* C22: a details read by the creator of a key changes nothing of the key:
\* not its views_used, its last_viewed_at or its status, whoever the key is
\* addressed to.
C22_CreatorReadIsPure ==
    [][/\ \A u \in Users, k \in KeyIds :
            ( /\ get_key_details_load(u, k)
              /\ k \in Stored
              /\ keys[k].creator = u ) => sess' = sess
       /\ \A s \in InFlight :
            ( /\ get_key_details_commit(s)
              /\ s.id \in Stored
              /\ keys[s.id].creator = s.user ) => keys' = keys
      ]_vars

\* C23: the stored views_used of a key never decreases, whatever the
\* interleaving of the reads and commits of concurrent views.
C23_ViewsUsedMonotone ==
    [][\A k \in Stored \cap DOMAIN keys' :
          keys'[k].views_used >= keys[k].views_used]_vars

\* C24: the bundle and the category list of a stored key never change,
\* whatever is done to the key or to its creator's profile afterwards.
C24_BundleFixed ==
    [][\A k \in Stored \cap DOMAIN keys' :
          /\ keys'[k].user_data = keys[k].user_data
          /\ keys'[k].information_types = keys[k].information_types
      ]_vars

\* a key created before its creator was verified has been viewed, and its
\* bundle still says what was true at creation
C24_Witness ==
    \E k \in Stored :
        /\ "is_verified" \in DOMAIN keys[k].user_data
        /\ ~keys[k].user_data["is_verified"]
        /\ users[keys[k].creator].is_verified
        /\ keys[k].views_used > 0

\* C25: for every category of the request, the bundle a fulfilment builds
\* holds the value the submission supplies, else the responder's profile
\* value, else the placeholder of the category; and a fulfilment by the
\* target of a pending request does not fail because a value is missing.
C25_BundlePrecedence ==
    [][\A u \in BundleUsers, r \in RequestIds, d \in BundleAnswerInputs :
          ( /\ submit_verification_begin(u, r, d)
            /\ r \in DOMAIN requests
            /\ requests[r].target_email = Email(u)
            /\ requests[r].status = "pending"
            /\ d.additional_data.kind # "object" )
          => /\ sess' # sess
             /\ \A s \in BagToSet(sess') :
                  LET bundle == s.new_key.user_data
                      asked == Range(requests[r].information_types)
                      given == IF d.additional_data.kind = "json"
                               THEN d.additional_data.value ELSE EmptyDict
                  IN
                  /\ DOMAIN bundle = asked
                  /\ "fullname" \in asked =>
                        bundle["fullname"] \in
                          IF "fullname" \in DOMAIN given
                          THEN {given["fullname"]}
                          ELSE {"first last", "Vfirst Vlast"}
                  /\ "firstname" \in asked =>
                        bundle["firstname"] \in
                          IF "firstname" \in DOMAIN given
                          THEN {given["firstname"]}
                          ELSE {"first", "Vfirst"}
                  /\ "age" \in asked =>
                        bundle["age"] =
                          IF "age" \in DOMAIN given THEN "40"
                          ELSE IF users[u].is_verified
                                  /\ users[u].verified_date_of_birth # NoDate
                          THEN "36" ELSE "35"
                  /\ "location" \in asked =>
                        IF d.coords
                        THEN /\ bundle["location"].latitude = Latitude
                             /\ bundle["location"].longitude = Longitude
                        ELSE IF d.location_data.present
                        THEN bundle["location"] = d.location_data.value
                        ELSE bundle["location"].cityDisplay =
                                "Location not captured"
                  /\ "selfie" \in asked =>
                        IF d.selfie_base64.present
                        THEN bundle["selfie"].image_data =
                                d.selfie_base64.value
                        ELSE bundle["selfie"].status = "not_captured"
                  /\ "photo" \in asked =>
                        IF d.photo_base64.present
                        THEN bundle["photo"].image_data =
                                d.photo_base64.value
                        ELSE bundle["photo"].status = "not_captured"
      ]_vars

\* Scenario C: a key answers a request for age and location with the
\* submitted age and the location placeholder
C25_Witness ==
    \E k \in Stored :
        /\ keys[k].origin \in DOMAIN requests
        /\ requests[keys[k].origin].status = "completed"
        /\ keys[k].information_types = <<"age", "location">>
        /\ keys[k].user_data["age"] = "40"
        /\ keys[k].user_data["location"].cityDisplay = "Location not captured"

\* C26: no stored bundle holds coordinates: a location entry that has a
\* latitude or longitude field has no value in it.
C26_NoRawCoordinates ==
    \A k \in Stored :
        "location" \in DOMAIN keys[k].user_data =>
            LET loc == keys[k].user_data["location"]
            IN /\ "latitude" \in DOMAIN loc => loc.latitude = Null
               /\ "longitude" \in DOMAIN loc => loc.longitude = Null

\* C27: a key minted while its creator is verified has a verification_badge
\* in its bundle, and a key minted while its creator is not verified has
\* none.
C27_BadgeIffVerified ==
    [][\A k \in DOMAIN keys' \ DOMAIN keys :
          "verification_badge" \in DOMAIN keys'[k].user_data
              <=> users[keys'[k].creator].is_verified
      ]_vars

\* C28: for a verified creator whose verified names and date of birth are
\* set, a name or an age that the bundle takes from the profile is the
\* verified one.
C28_ProfileValuesVerified ==
    [][\A k \in DOMAIN keys' \ DOMAIN keys :
          LET c == keys'[k].creator
              bundle == keys'[k].user_data
          IN ( /\ users[c].is_verified
               /\ users[c].verified_first_name # Null
               /\ users[c].verified_last_name # Null
               /\ users[c].verified_date_of_birth # NoDate )
             => /\ "fullname" \in DOMAIN bundle =>
                     bundle["fullname"] \in {"Vfirst Vlast", "Alex Doe"}
                /\ "firstname" \in DOMAIN bundle =>
                     bundle["firstname"] \in {"Vfirst", "Alex"}
                /\ "age" \in DOMAIN bundle =>
                     bundle["age"] \in {"36", "40"}
      ]_vars

\* ------------------------------------------------ titles offered to both
\* handlers that validate one: no label, empty and blank labels, one word
\* and two words at the lengths around every limit, with and without a
\* letter, with and without whitespace around
SingleLengths == {1, 2, 3, 15, 16, 20, 21, 30, 31}
FirstLengths == {1, 14, 15, 16}
SecondLengths == {1, 14, 15}
TitleInputs ==
    {NoTitle}
    \cup { Title(p, << >>) : p \in {0, 1} }
    \cup { Title(p, <<Word(n, a)>>) :
             p \in {0, 1}, n \in SingleLengths, a \in BOOLEAN }
    \cup { Title(0, <<Word(n, a), Word(m, b)>>) :
             n \in FirstLengths, m \in SecondLengths,
             a \in BOOLEAN, b \in BOOLEAN }

TitleNext ==
    \/ \E l \in TitleInputs :
          create_shareable_key(1, KeyData(l, Target(2), ViewsAbsent, GoodInfo,
                                          NoEntry, NoEntry, NoEntry, NoEntry,
                                          FALSE))
    \/ \E l \in TitleInputs :
          create_request(2, Target(1), l, NotesAbsent, GoodInfo)

TitleSpec == Init /\ [][TitleNext]_vars

\* C29: the validator of keys.py and the validator of verification.py give
\* the same result for every title, and both accept a title exactly when it
\* is non-empty after trimming, 3 to 30 characters long, not one word longer
\* than 20, has no word longer than 15 and has a letter; POST /keys and
\* POST /requests accept a body, otherwise valid, exactly for those titles.
C29_TitleCopiesAgree ==
    [][\A l \in TitleInputs :
          LET n == TitleLength(l)
              accepted ==
                  /\ l.present
                  /\ l.words # << >>
                  /\ n >= 3
                  /\ n <= 30
                  /\ ~(Len(l.words) = 1 /\ n > 20)
                  /\ \A i \in DOMAIN l.words : l.words[i].len <= 15
                  /\ \E i \in DOMAIN l.words : l.words[i].alpha
          IN  /\ keys_validate_title(l) = validate_title(l)
              /\ (validate_title(l) = "") <=> accepted
              /\ create_shareable_key(1, KeyData(l, Target(2), ViewsAbsent,
                                                 GoodInfo, NoEntry, NoEntry,
                                                 NoEntry, NoEntry, FALSE))
                    => ((resp'.code = 201) <=> accepted)
              /\ create_request(2, Target(1), l, NotesAbsent, GoodInfo)
                    => ((resp'.code = 201) <=> accepted)
      ]_vars

\* a key stored under a two-word title of exactly 30 characters and a
\* request stored under a one-word title of exactly 15
C29_Witness ==
    /\ \E k \in Stored : TitleLength(keys[k].label) = 30
    /\ \E r \in DOMAIN requests :
          /\ Len(requests[r].label.words) = 1
          /\ TitleLength(requests[r].label) = 15

\* ------------------------------------------------ addresses in either case
\* One call at a time.  User 2 asks user 1 and user 1 shares with user 2,
\* the address spelled as at signup or with other letter case; user 1
\* answers, both read the key.
AddressUsers == {1, 2}
AddressNext ==
    \/ AllIdle /\ \E t \in {Target(1), TargetOtherCase(1)} :
          create_request(2, t, GoodLabel, NotesAbsent, GoodInfo)
    \/ AllIdle /\ \E t \in {Target(2), TargetOtherCase(2)},
                     v \in {ViewsAbsent, Views(1)} :
          create_shareable_key(1, KeyData(GoodLabel, t, v, GoodInfo, NoEntry,
                                          NoEntry, NoEntry, NoEntry, FALSE))
    \/ AllIdle /\ \E u \in AddressUsers, r \in RequestIds :
          submit_verification_begin(u, r, PlainAnswer(ViewsAbsent))
    \/ \E s \in InFlight : submit_verification_set_status(s)
    \/ \E s \in InFlight : submit_verification_flush(s)
    \/ \E s \in InFlight : submit_verification_commit(s)
    \/ AllIdle /\ \E u \in AddressUsers, r \in RequestIds :
          deny_request_load(u, r)
    \/ \E s \in InFlight : deny_request_commit(s)
    \/ AllIdle /\ \E u \in AddressUsers, k \in KeyIds :
          get_key_details_load(u, k)
    \/ \E s \in InFlight : get_key_details_commit(s)

AddressSpec == Init /\ [][AddressNext]_vars

\* C30: an address that some registered user has, in whatever letter case
\* the body spells it, is stored in lower case on the request or key and is
\* resolved to that user.
C30_AddressCaseFolded ==
    /\ \A r \in DOMAIN requests :
          requests[r].target_email.owner \in Users =>
              /\ requests[r].target_email.lower
              /\ requests[r].target_user_id = requests[r].target_email.owner
    /\ \A k \in Stored :
          keys[k].recipient_email.owner \in Users =>
              /\ keys[k].recipient_email.lower
              /\ keys[k].recipient = keys[k].recipient_email.owner

\* ------------------------------------------------ bodies with errors
\* One call at a time.  User 1 creates keys and requests and updates the
\* requests, user 2 answers them; each body is offered with its label
\* missing, too short or valid, its categories missing, empty, no list or a
\* list, and its recipient or target missing or given.
ValidationUsers == {1, 2}
ValidationInfoInputs ==
    { InfoAbsent, InfoOther, InfoList(<< >>), InfoList(<<"age">>),
      InfoList(<<"location">>) }
ValidationTargets == { TargetAbsent, Target(2) }
ValidationKeyInputs ==
    { KeyData(l, t, ViewsAbsent, i, NoEntry, NoEntry, NoEntry, NoEntry, FALSE) :
        l \in LabelInputs, t \in ValidationTargets,
        i \in ValidationInfoInputs }

ValidationNext ==
    \/ AllIdle /\ \E d \in ValidationKeyInputs : create_shareable_key(1, d)
    \/ AllIdle /\ \E t \in ValidationTargets, l \in LabelInputs,
          n \in NotesInputs, i \in ValidationInfoInputs :
          create_request(1, t, l, n, i)
    \/ AllIdle /\ \E u \in ValidationUsers, r \in RequestIds,
          l \in LabelInputs, n \in NotesInputs, i \in ValidationInfoInputs :
          update_request(u, r, l, n, i)
    \/ AllIdle /\ \E u \in ValidationUsers, r \in RequestIds :
          submit_verification_begin(u, r, PlainAnswer(ViewsAbsent))
    \/ \E s \in InFlight : submit_verification_set_status(s)
    \/ \E s \in InFlight : submit_verification_flush(s)
    \/ \E s \in InFlight : submit_verification_commit(s)

ValidationSpec == Init /\ [][ValidationNext]_vars

\* C31: a POST /keys, POST /requests or PUT /requests call whose body has a
\* validation error (label missing or invalid, categories missing or no
\* list, recipient or target missing) is answered with an error and leaves
\* the stored keys and requests as they were.
C31_ValidationErrorFrame ==
    [][/\ \A d \in ValidationKeyInputs :
            ( /\ create_shareable_key(1, d)
              /\ \/ validate_title(d.label) # ""
                 \/ d.information_types.kind # "list"
                 \/ d.information_types.items = << >>
                 \/ ~d.recipient_email.present )
            => resp'.code = 400 /\ keys' = keys /\ requests' = requests
       /\ \A t \in ValidationTargets, l \in LabelInputs,
             n \in NotesInputs, i \in ValidationInfoInputs :
            ( /\ create_request(1, t, l, n, i)
              /\ \/ validate_title(l) # ""
                 \/ i.kind # "list"
                 \/ i.items = << >>
                 \/ ~t.present )
            => resp'.code = 400 /\ keys' = keys /\ requests' = requests
       /\ \A u \in ValidationUsers, r \in RequestIds, l \in LabelInputs,
             n \in NotesInputs, i \in ValidationInfoInputs :
            ( /\ update_request(u, r, l, n, i)
              /\ \/ l.present /\ validate_title(l) # ""
                 \/ i.kind = "other" )
            => resp'.code >= 400 /\ keys' = keys /\ requests' = requests
      ]_vars

\* an update with a validation error by the requester of a pending request
\* was just refused, the request is pending as created, and a key created
\* by POST /keys is stored
C31_Witness ==
    \E r \in DOMAIN requests :
        /\ resp = Response("update", requests[r].requester, r, 400, FALSE,
                           "-", 0)
        /\ requests[r].status = "pending"
        /\ requests[r].notes = ""
        /\ \E k \in Stored : keys[k].origin = 0

\* ------------------------------------------------ the identity of a user
\* One call at a time: keys and requests are created and answered, users
\* delete their account, update their profile and are verified, and code
\* holding a loaded user assigns to its protected attributes.
IdentityUsers == {1, 2}
OtherName == "other"
OtherBirth == 1991
AttrValues(field) ==
    IF field = "date_of_birth" THEN {SignupBirth, OtherBirth, NoDate}
    ELSE {SignupFirst, SignupLast, OtherName, Null}

IdentityNext ==
    \/ AllIdle /\ \E v \in {ViewsAbsent, Views(1)} :
          create_shareable_key(1, PlainKey(2, v))
    \/ AllIdle /\ \E u \in IdentityUsers, t \in IdentityUsers :
          create_request(u, Target(t), GoodLabel, NotesAbsent, GoodInfo)
    \/ AllIdle /\ \E u \in IdentityUsers, r \in RequestIds :
          deny_request_load(u, r)
    \/ \E s \in InFlight : deny_request_commit(s)
    \/ AllIdle /\ \E u \in IdentityUsers, k \in KeyIds :
          get_key_details_load(u, k)
    \/ \E s \in InFlight : get_key_details_commit(s)
    \/ AllIdle /\ \E u \in IdentityUsers, ok \in BOOLEAN :
          delete_account(u, ok)
    \/ AllIdle /\ \E u \in IdentityUsers, immutable \in BOOLEAN :
          update_profile(u, immutable)
    \/ AllIdle /\ \E u \in IdentityUsers :
          update_verified_info(u, VerifiedFirst, VerifiedLast, VerifiedBirth)
    \/ AllIdle /\ \E u \in IdentityUsers, field \in ProtectedFields :
          \E value \in AttrValues(field) : User_setattr(u, field, value)

IdentitySpec == Init /\ [][IdentityNext]_vars

\* C32: no step changes first_name, last_name or date_of_birth of a user;
\* an assignment of a different value to one of them outside the
\* verification pathway raises and stores nothing, and update_profile
\* leaves the user's identity columns alone.
C32_IdentityImmutable ==
    [][/\ \A u \in Users :
            /\ users'[u].first_name = users[u].first_name
            /\ users'[u].last_name = users[u].last_name
            /\ users'[u].date_of_birth = users[u].date_of_birth
       /\ \A u \in IdentityUsers, field \in ProtectedFields :
            \A value \in AttrValues(field) :
              ( /\ User_setattr(u, field, value)
                /\ value # users[u][field] )
              => resp'.code = 500 /\ users' = users
       /\ \A u \in IdentityUsers, immutable \in BOOLEAN :
            update_profile(u, immutable) => users' = users
      ]_vars

\* a verified user whose assignment of another value was just refused and
\* whose self-reported identity is as signed up
C32_Witness ==
    \E u \in IdentityUsers :
        /\ resp = Response("setattr", u, 0, 500, FALSE, "-", 0)
        /\ users[u].is_verified
        /\ users[u].first_name = SignupFirst
        /\ users[u].date_of_birth = SignupBirth

\* C33: a soft delete with the correct password is answered 200 and leaves
\* the user inactive, the user's active keys revoked and the pending
\* requests the user is a party of cancelled.
C33_SoftDeleteEffects ==
    [][\A u \in IdentityUsers :
          ( /\ delete_account(u, TRUE)
            /\ \/ \E k \in Stored :
                     IsCreator(keys[k], u) /\ keys[k].status = "active"
               \/ \E r \in DOMAIN requests :
                     /\ requests[r].status = "pending"
                     /\ u \in {requests[r].requester,
                               requests[r].target_user_id} )
          => /\ resp'.code = 200
             /\ ~users'[u].is_active
             /\ \A k \in Stored :
                  IsCreator(keys[k], u) /\ keys[k].status = "active"
                     => keys'[k].status = "revoked"
             /\ \A r \in DOMAIN requests :
                  ( /\ requests[r].status = "pending"
                    /\ u \in {requests[r].requester,
                              requests[r].target_user_id} )
                     => requests'[r].status = "cancelled"
      ]_vars

\* C34: the commit of a details call by the recipient, who read the key
\* before its revoke committed, leaves the revoked key revoked and does not
\* raise its views_used.
C34_RevokeIsFinal ==
    [][\A s \in InFlight :
          ( /\ get_key_details_commit(s)
            /\ s.id \in Stored
            /\ s.user # keys[s.id].creator
            /\ keys[s.id].status = "revoked" )
          => /\ keys'[s.id].status = "revoked"
             /\ keys'[s.id].views_used <= keys[s.id].views_used
      ]_vars

\* C35: at most one stored key is minted from a request, also when two
\* fulfilments by the target overlap.
C35_OneKeyPerRequest ==
    \A r \in RequestIds :
        Cardinality({k \in Stored : keys[k].origin = r}) <= 1

\* ------------------------------------------------ labels of keys
\* One call at a time.  User 1 creates keys, user 2 asks user 1 under any
\* title and changes the title, user 1 answers.
LabelNext ==
    \/ AllIdle /\ \E l \in TitleInputs :
          create_shareable_key(1, KeyData(l, Target(2), ViewsAbsent, GoodInfo,
                                          NoEntry, NoEntry, NoEntry, NoEntry,
                                          FALSE))
    \/ AllIdle /\ \E l \in TitleInputs :
          create_request(2, Target(1), l, NotesAbsent, GoodInfo)
    \/ AllIdle /\ \E r \in RequestIds, l \in TitleInputs :
          update_request(2, r, l, NotesAbsent, InfoAbsent)
    \/ AllIdle /\ \E r \in RequestIds :
          submit_verification_begin(1, r, PlainAnswer(ViewsAbsent))
    \/ \E s \in InFlight : submit_verification_set_status(s)
    \/ \E s \in InFlight : submit_verification_flush(s)
    \/ \E s \in InFlight : submit_verification_commit(s)

LabelSpec == Init /\ [][LabelNext]_vars

\* C36: the label of every stored key, created by POST /keys or minted by a
\* fulfilment, is 3 to 30 characters long after trimming, has no word
\* longer than 15 characters and has a letter.
C36_KeyLabelValid ==
    \A k \in Stored :
        LET l == keys[k].label
        IN  /\ l.present
            /\ TitleLength(l) >= 3
            /\ TitleLength(l) <= 30
            /\ \A i \in DOMAIN l.words : l.words[i].len <= 15
            /\ \E i \in DOMAIN l.words : l.words[i].alpha

\* ------------------------------------------------ access tokens
\* JWT_EXPIRATION_HOURS, in ticks of the clock.  current_app.config is read
\* without a default and no module sets the key, so a call runs with the
\* key set by the deployment (configured) or without it.
JWT_EXPIRATION_HOURS == 2
\* the clock stops here
MaxClock == 4

\* generate_jwt_token: the payload of the token, user_id, exp and iat; it
\* has no 'type' entry, which data.get('type') reads as None
generate_jwt_token(user_id, now) ==
    [user_id |-> user_id, exp |-> now + JWT_EXPIRATION_HOURS, type |-> Null]

\* POST /login: an active user with the right password gets a token; None
\* from generate_jwt_token (the KeyError of a missing config key) is 500
login(u, password_ok, configured) ==
    /\ IF ~users[u].is_active \/ ~password_ok
       THEN /\ resp' = Response("login", u, 0, 401, FALSE, "-", 0)
            /\ UNCHANGED tokens
       ELSE IF ~configured
       THEN /\ resp' = Response("login", u, 0, 500, FALSE, "-", 0)
            /\ UNCHANGED tokens
       ELSE /\ tokens' = tokens \cup {generate_jwt_token(u, clock)}
            /\ resp' = Response("login", u, 0, 200, FALSE, "-", 0)
    /\ UNCHANGED <<keyVars, requestVars, sess, clock, users>>

\* POST /refresh: the token is decoded with verify_exp off and an active
\* user gets a new one
refresh_token(tok, configured) ==
    /\ tok \in tokens
    /\ IF ~users[tok.user_id].is_active
       THEN /\ resp' = Response("refresh", tok.user_id, 0, 401, FALSE, "-", 0)
            /\ UNCHANGED tokens
       ELSE IF ~configured
       THEN /\ resp' = Response("refresh", tok.user_id, 0, 500, FALSE, "-", 0)
            /\ UNCHANGED tokens
       ELSE /\ tokens' = tokens \cup {generate_jwt_token(tok.user_id, clock)}
            /\ resp' = Response("refresh", tok.user_id, 0, 200, FALSE, "-", 0)
    /\ UNCHANGED <<keyVars, requestVars, sess, clock, users>>

\* token_required: jwt.decode refuses an expired token, then the type of
\* the token, the existence of the user and is_active are tested; "ok" lets
\* the handler run with the user's id
token_required(tok, now) ==
    IF tok.exp <= now THEN "expired"
    ELSE IF tok.type # "access" THEN "type"
    ELSE IF tok.user_id \notin DOMAIN users THEN "no user"
    ELSE IF ~users[tok.user_id].is_active THEN "inactive"
    ELSE "ok"

\* GET /verify behind token_required
verify_token(tok) ==
    /\ tok \in tokens
    /\ resp' = IF token_required(tok, clock) = "ok"
               THEN Response("verify", tok.user_id, 0, 200, FALSE, "-", 0)
               ELSE Response("verify", tok.user_id, 0, 401, FALSE, "-", 0)
    /\ UNCHANGED <<keyVars, requestVars, sess, clock, users, tokens>>

\* time passes
Tick ==
    /\ clock < MaxClock
    /\ clock' = clock + 1
    /\ UNCHANGED <<keyVars, requestVars, sess, resp, users, tokens>>

AuthUsers == {1, 2}
AuthNext ==
    \/ \E u \in AuthUsers, ok \in BOOLEAN, configured \in BOOLEAN :
          login(u, ok, configured)
    \/ \E tok \in tokens, configured \in BOOLEAN :
          refresh_token(tok, configured)
    \/ \E tok \in tokens : verify_token(tok)
    \/ Tick

AuthSpec == Init /\ [][AuthNext]_vars

LifecycleNext ==
    \/ Next
    \/ \E u \in Users, ok \in BOOLEAN : delete_account(u, ok)

LifecycleSpec == Init /\ [][LifecycleNext]_vars

\* C38: a stored key whose status is viewed_out, revoked or removed is never
\* given the status active again, by any view, sweep, revocation, removal
\* or account deletion.
C38_NeverActiveAgain ==
    [][\A k \in Stored \cap DOMAIN keys' :
          keys[k].status # "active" => keys'[k].status # "active"
      ]_vars

\* a view that had read the key as active committed after the revocation,
\* and the key is still revoked
C38_Witness ==
    \E k \in Stored :
        /\ keys[k].status = "revoked"
        /\ keys[k].views_used > 0
        /\ resp.op = "details" /\ resp.id = k /\ resp.code = 200

\* ------------------------------------------------ KeyStatusManager
\* update_status_if_needed: the status the key has after the call
update_status_if_needed(row) ==
    IF row.status = "revoked" THEN row.status
    ELSE IF row.views_used >= row.views_allowed THEN "viewed_out"
    ELSE IF row.status = "viewed_out" /\ row.views_used < row.views_allowed
    THEN "active"
    ELSE row.status

\* a call of update_status_if_needed on a loaded key, then committed; resp
\* records the key and the status it was given
KeyStatusManager_update(k) ==
    /\ k \in Stored
    /\ keys' = [keys EXCEPT ![k].status = update_status_if_needed(keys[k])]
    /\ resp' = Response("update_status_if_needed", 0, k, 0, FALSE,
                        keys'[k].status, keys[k].views_used)
    /\ UNCHANGED <<nextKeyId, requestVars, sess, clock, served, users, tokens>>

\* categorize_keys: every key of the list goes through
\* update_status_if_needed
categorize_keys ==
    /\ keys' = [k \in Stored |->
                  [keys[k] EXCEPT !.status = update_status_if_needed(keys[k])]]
    /\ resp' = Response("categorize_keys", 0, 0, 0, FALSE, "-", 0)
    /\ UNCHANGED <<nextKeyId, requestVars, sess, clock, served, users, tokens>>

\* the helper on any table of up to two rows, in step or not
StatusNext ==
    \/ \E k \in SweepKeyIds : KeyStatusManager_update(k)
    \/ categorize_keys

StatusSpec == SweepInit /\ [][StatusNext]_vars

\* C39: update_status_if_needed leaves the status of a revoked key and of
\* a removed key as it is, whatever views_used and views_allowed are.
C39_ExplicitStatusesExempt ==
    [][\A k \in Stored \cap DOMAIN keys' :
          keys[k].status \in {"revoked", "removed"}
              => keys'[k].status = keys[k].status
      ]_vars

=============================================================================
